---- MODULE Spec2Model ----
(***************************************************************************)
(* Guest-management tool: CSV/Excel upload -> full replace of the guests   *)
(* table -> live table with confirmation toggles and realtime reloads.     *)
(*                                                                         *)
(* Strings are sequences of one-character strings, so that toLowerCase,    *)
(* trim and includes are computed, not assumed.                            *)
(***************************************************************************)
EXTENDS Integers, Sequences, FiniteSets, TLC

(* ------------------------------------------------------------------ *)
(* Bounds of the model                                                  *)
(* ------------------------------------------------------------------ *)
MaxHeaders == 3
MaxOps == 2
MaxLoads == 2
MaxRows == 2
MaxSharedRows == 1

(* ------------------------------------------------------------------ *)
(* JavaScript string primitives                                         *)
(* ------------------------------------------------------------------ *)
UpperChars ==
    <<"A","B","C","D","E","F","G","H","I","J","K","L","M","N","O","P","Q",
      "R","S","T","U","V","W","X","Y","Z","Á","É","Í","Ó","Ú","Ñ">>

LowerChars ==
    <<"a","b","c","d","e","f","g","h","i","j","k","l","m","n","o","p","q",
      "r","s","t","u","v","w","x","y","z","á","é","í","ó","ú","ñ">>

LowerChar(ch) ==
    IF \E i \in 1..Len(UpperChars) : UpperChars[i] = ch
    THEN LowerChars[CHOOSE i \in 1..Len(UpperChars) : UpperChars[i] = ch]
    ELSE ch

\* String.prototype.toLowerCase
toLowerCase(s) == [i \in 1..Len(s) |-> LowerChar(s[i])]

IsSpace(ch) == ch \in {" ", "\t", "\n", "\r"}

RECURSIVE TrimStart(_)
TrimStart(s) ==
    IF Len(s) > 0 /\ IsSpace(s[1]) THEN TrimStart(Tail(s)) ELSE s

RECURSIVE TrimEnd(_)
TrimEnd(s) ==
    IF Len(s) > 0 /\ IsSpace(s[Len(s)])
    THEN TrimEnd(SubSeq(s, 1, Len(s) - 1)) ELSE s

\* String.prototype.trim
trim(s) == TrimEnd(TrimStart(s))

\* String.prototype.includes: t occurs in s as a contiguous substring
includes(s, t) ==
    \E i \in 0..(Len(s) - Len(t)) : SubSeq(s, i + 1, i + Len(t)) = t

\* Array.prototype.includes
arrIncludes(arr, x) == \E i \in 1..Len(arr) : arr[i] = x

DigitChars == <<"0","1","2","3","4","5","6","7","8","9">>

\* Number.prototype.toString for a non-negative integer
RECURSIVE numToString(_)
numToString(n) ==
    IF n < 10 THEN <<DigitChars[n + 1]>>
    ELSE numToString(n \div 10) \o <<DigitChars[(n % 10) + 1]>>

(* ------------------------------------------------------------------ *)
(* Column Orderer: getOrderedHeaders, both GuestTable variants          *)
(* ------------------------------------------------------------------ *)
desiredOrder ==
    <<
       <<"D", "N", "I">>,
       <<"A", "p", "e", "l", "l", "i", "d", "o">>,
       <<"N", "o", "m", "b", "r", "e">>,
       <<"A", "p", "e", "l", "l", "i", "d", "o", " ", "y", " ", "N", "o", "m", "b", "r", "e">>,
       <<"G", "r", "u", "p", "o", " ", "s", "a", "n", "g", "u", "í", "n", "e", "o">>,
       <<"T", "e", "l", "é", "f", "o", "n", "o">>,
       <<"V", "e", "n", "í", "s", " ", "a", "c", "o", "m", "p", "a", "ñ", "a", "d", "o">>,
       <<"A", "p", "e", "l", "l", "i", "d", "o", " ", "y", " ", "N", "o", "m", "b", "r", "e", " ", "d", "e", "l", " ", "a", "c", "o", "m", "p", "a", "ñ", "a", "n", "t", "e">>,
       <<"D", "N", "I", " ", "A", "c", "o", "m", "p", "a", "ñ", "a", "n", "t", "e">>,
       <<"C", "o", "n", "t", "a", "c", "t", "o", " ", "d", "e", " ", "E", "m", "e", "r", "g", "e", "n", "c", "i", "a">>,
       <<"T", "e", "n", "é", "s", " ", "c", "a", "r", "n", "e", "t", " ", "V", "i", "g", "e", "n", "t", "e", "?">>,
       <<"T", "e", "n", "é", "s", " ", "S", "e", "g", "u", "r", "o", " ", "v", "i", "g", "e", "n", "t", "e", "?">>,
       <<"C", "e", "n", "a", " ", "s", "h", "o", "w", " ", "d", "í", "a", " ", "s", "á", "b", "a", "d", "o", " ", "1", "1", " ", "(", "n", "o", " ", "i", "n", "c", "l", "u", "y", "e", " ", "b", "e", "b", "i", "d", "a", ")">>,
       <<"T", "e", "n", "é", "s", " ", "a", "l", "g", "u", "n", "a", " ", "r", "e", "s", "t", "r", "i", "c", "c", "i", "ó", "n", " ", "a", "l", "i", "m", "e", "n", "t", "a", "r", "i", "a", "?">>,
       <<"M", "o", "t", "o", " ", "e", "n", " ", "l", "a", " ", "q", "u", "e", " ", "v", "e", "n", "í", "s">>,
       <<"C", "i", "u", "d", "a", "d", " ", "d", "e", " ", "d", "o", "n", "d", "e", " ", "n", "o", "s", " ", "v", "i", "s", "i", "t", "a", "s">>,
       <<"P", "r", "o", "v", "i", "n", "c", "i", "a">>,
       <<"S", "o", "s", " ", "a", "l", "é", "r", "g", "i", "c", "o", " ", "a", " ", "a", "l", "g", "o", "?">>,
       <<"A", " ", "q", "u", "e", " ", "s", "o", "s", " ", "a", "l", "é", "r", "g", "i", "c", "o", "?">>,
       <<"V", "a", "s", " ", "a", " ", "r", "e", "a", "l", "i", "z", "a", "r", " ", "l", "a", "s", " ", "r", "o", "d", "a", "d", "a", "s">>
    >>

\* headers.find(h => h.trim().toLowerCase() === d.trim().toLowerCase());
\* <<>> stands for undefined (the empty string is falsy as well)
findExact(hdrs, d) ==
    LET hit == {i \in 1..Len(hdrs) :
                  toLowerCase(trim(hdrs[i])) = toLowerCase(trim(d))}
    IN IF hit = {} THEN <<>>
       ELSE hdrs[CHOOSE i \in hit : \A j \in hit : i <= j]

\* pass 1: desiredOrder.forEach(... exact match ...)
\* (in each loop below the test on Len(next) only makes TLC evaluate the
\* accumulator before the next iteration; it is always true)
RECURSIVE exactPass(_, _, _)
exactPass(hdrs, k, acc) ==
    IF k > Len(desiredOrder) THEN acc
    ELSE LET exact == findExact(hdrs, desiredOrder[k])
             next == IF exact # <<>> /\ ~arrIncludes(acc, exact)
                     THEN Append(acc, exact) ELSE acc
         IN IF Len(next) >= 0 THEN exactPass(hdrs, k + 1, next) ELSE next

\* the partial-match test of the first variant: containment in either direction
partialMatch1(h, d) ==
    \/ includes(toLowerCase(h), toLowerCase(d))
    \/ includes(toLowerCase(d), toLowerCase(h))

\* the partial-match test of the second variant: the reverse direction is
\* Array.includes of the lower-cased header in desiredOrder itself
partialMatch2(h, d) ==
    \/ includes(toLowerCase(h), toLowerCase(d))
    \/ arrIncludes(desiredOrder, toLowerCase(trim(h)))

\* mutant: the membership test is dropped
pushAlways(acc, h, cond) ==
    IF cond THEN Append(acc, h) ELSE acc

\* if (!orderedHeaders.includes(h) && cond) orderedHeaders.push(h)
pushIfAbsent(acc, h, cond) ==
    IF ~arrIncludes(acc, h) /\ cond THEN Append(acc, h) ELSE acc

\* pass 2, inner loop: headers.forEach(h => ...) for one desired header
RECURSIVE partialInner(_, _, _, _, _)
partialInner(hdrs, d, j, acc, variant) ==
    IF j > Len(hdrs) THEN acc
    ELSE LET next == pushIfAbsent(acc, hdrs[j],
                        IF variant = 1 THEN partialMatch1(hdrs[j], d)
                                       ELSE partialMatch2(hdrs[j], d))
         IN IF Len(next) >= 0
            THEN partialInner(hdrs, d, j + 1, next, variant) ELSE next

\* pass 2, outer loop: desiredOrder.forEach(desiredHeader => ...)
RECURSIVE partialPass(_, _, _, _)
partialPass(hdrs, k, acc, variant) ==
    IF k > Len(desiredOrder) THEN acc
    ELSE LET next == partialInner(hdrs, desiredOrder[k], 1, acc, variant)
         IN IF Len(next) >= 0
            THEN partialPass(hdrs, k + 1, next, variant) ELSE next

\* pass 3: headers.forEach(h => if (!orderedHeaders.includes(h)) push)
RECURSIVE restPass(_, _, _)
restPass(hdrs, j, acc) ==
    IF j > Len(hdrs) THEN acc
    ELSE LET next == pushIfAbsent(acc, hdrs[j], TRUE)
         IN IF Len(next) >= 0 THEN restPass(hdrs, j + 1, next) ELSE next

getOrderedHeaders(hdrs) ==
    restPass(hdrs, 1, partialPass(hdrs, 1, exactPass(hdrs, 1, <<>>), 1))

getOrderedHeaders2(hdrs) ==
    restPass(hdrs, 1, partialPass(hdrs, 1, exactPass(hdrs, 1, <<>>), 2))


(* ------------------------------------------------------------------ *)
(* Cell values of a parsed row: string, number (dynamicTyping) or null  *)
(* ------------------------------------------------------------------ *)
CellStr(s) == [s |-> s, t |-> "str", n |-> 0]
CellNum(n) == [s |-> <<>>, t |-> "num", n |-> n]
CellNull == [s |-> <<>>, t |-> "null", n |-> 0]

\* value.toString() of a non-null cell
cellToString(cell) ==
    IF cell.t = "num" THEN numToString(cell.n) ELSE cell.s

(* ------------------------------------------------------------------ *)
(* Uploader: identifier derivation of saveGuestsToSupabase              *)
(* ------------------------------------------------------------------ *)
isIdHeader(h) ==
    \/ includes(toLowerCase(h), <<"i","d">>)
    \/ includes(toLowerCase(h), <<"c","ó","d","i","g","o">>)
    \/ includes(toLowerCase(h), <<"c","o","d","i","g","o">>)

\* headers.find(isIdHeader): index of the first such header, 0 for undefined
idFieldIndex(hdrs) ==
    LET hit == {i \in 1..Len(hdrs) : isIdHeader(hdrs[i])}
    IN IF hit = {} THEN 0 ELSE CHOOSE i \in hit : \A j \in hit : i <= j

\* `guest_${n}`
guestN(n) == <<"g","u","e","s","t","_">> \o numToString(n)

\* mutant: the synthesized identifier uses the 0-based index
uploadGuestIdZeroBased(row, index, hdrs) ==
    LET f == idFieldIndex(hdrs)
    IN IF f = 0 \/ hdrs[f] \notin DOMAIN row \/ row[hdrs[f]].t = "null"
       THEN guestN(index)
       ELSE IF cellToString(row[hdrs[f]]) # <<>>
            THEN cellToString(row[hdrs[f]])
            ELSE guestN(index)

\* idField ? row[idField]?.toString() || `guest_${index + 1}` : `guest_${index + 1}`
\* (index is the 0-based position of the row in the batch)
uploadGuestId(row, index, hdrs) ==
    LET f == idFieldIndex(hdrs)
    IN IF f = 0 \/ hdrs[f] = <<>> THEN guestN(index + 1)
       ELSE IF hdrs[f] \notin DOMAIN row \/ row[hdrs[f]].t = "null"
            THEN guestN(index + 1)
            ELSE IF cellToString(row[hdrs[f]]) # <<>>
                 THEN cellToString(row[hdrs[f]])
                 ELSE guestN(index + 1)

\* data.map((row, index) => ({guest_id, guest_data: row, confirmed: false}))
guestsToInsert(data, hdrs) ==
    [i \in 1..Len(data) |->
        [guest_id |-> uploadGuestId(data[i], i - 1, hdrs),
         guest_data |-> data[i],
         confirmed |-> FALSE]]

(* ------------------------------------------------------------------ *)
(* Inputs: parsed batches that pass validation                          *)
(* ------------------------------------------------------------------ *)
hNombre == <<"N","o","m","b","r","e">>
hCodigo == <<"C","ó","d","i","g","o">>
hApellido == <<"A","p","e","l","l","i","d","o">>
hId == <<"i","d">>

hCODIGO == <<"C","O","D","I","G","O">>
hDNI == <<"D","N","I">>

bNombres ==
    [headers |-> <<hNombre>>,
     rows |-> << (hNombre :> CellStr(<<"A","n","a">>)), (hNombre :> CellStr(<<"L","u","i","s">>)) >>]

bApellidos ==
    [headers |-> <<hApellido, hNombre>>,
     rows |-> << (hApellido :> CellStr(<<"P","a","z">>)) @@ (hNombre :> CellStr(<<"A","n","a">>)),
                 (hApellido :> CellStr(<<"P","a","z">>)) @@ (hNombre :> CellStr(<<"L","u","i","s">>)) >>]

bCodigo ==
    [headers |-> <<hCodigo, hNombre>>,
     rows |-> << (hCodigo :> CellStr(<<"A","1">>)) @@ (hNombre :> CellStr(<<"A","n","a">>)) >>]

\* the batches uploaded in the live-table specification
MainBatches == {bNombres, bApellidos, bCodigo}

\* header rows and cell values of the uploader specification
HeaderRows ==
    { <<hNombre>>, <<hCodigo, hNombre>>, <<hNombre, hCODIGO>>,
      <<hApellido, hNombre>>, <<hDNI, hNombre>>, <<hNombre, hId, hCodigo>> }

IdCells == {CellStr(<<"A","1">>), CellStr(<<>>), CellNull, CellNum(7)}

CellsFor(h) == IF h = hNombre THEN {CellStr(<<"A","n","a">>)} ELSE IdCells

Range(seq) == {seq[i] : i \in 1..Len(seq)}

RowsFor(hdrs) ==
    {r \in [Range(hdrs) -> IdCells \cup {CellStr(<<"A","n","a">>)}] :
        \A h \in Range(hdrs) : r[h] \in CellsFor(h)}

\* a parsed row that survives the all-blank filter has a non-blank cell
SeqsUpTo(S, n) == UNION {[1..k -> S] : k \in 1..n}

UploadBatches ==
    UNION {{[headers |-> hdrs, rows |-> rs] : rs \in SeqsUpTo(RowsFor(hdrs), MaxRows)} :
             hdrs \in HeaderRows}

Clients == {"c1", "c2"}

(* ------------------------------------------------------------------ *)
(* State                                                                *)
(* ------------------------------------------------------------------ *)
VARIABLES
    store,            \* the guests table, its rows in the order inserted
    nextId,           \* source of fresh primary keys (gen_random_uuid)
    clock,            \* the time: read by new Date() and by now()
    guestData,        \* Index state guestData, per client
    headers,          \* Index state headers, per client
    confirmedGuests,  \* GuestTable state, per client
    supabaseGuests,   \* GuestTable state, per client
    subscribed,       \* per client: table mounted, realtime channel live
    events,           \* per client: change notifications for the callback of
                      \* the page's channel, not yet delivered
    loads,            \* per client: loadGuestsFromSupabase calls in flight
    toggles,          \* handleConfirmGuest calls, in order of invocation
    uploads,          \* saveGuestsToSupabase calls, in order of invocation
    toast,            \* per client: title of the last toast shown
    nOps,             \* user operations (toggle, file, upload, leaving the
                      \* page) and injected failures so far
    columns,          \* header row rendered by each GuestTable variant
    searchTerm,       \* Index state searchTerm, per client
    uploader,         \* CSVUploader state of page c1: isLoading, error, isOpen
    files,            \* handleFileUpload calls of page c1, in order
    channels          \* per client: realtime channels.  open: subscribed by
                      \* the mounted page; leaving: removeChannel called, the
                      \* leave not yet acknowledged; late: notifications not
                      \* yet delivered to the callbacks of leaving channels

vars == <<store, nextId, clock, guestData, headers, confirmedGuests,
          supabaseGuests, subscribed, events, loads, toggles, uploads,
          toast, nOps, columns, searchTerm, uploader, files, channels>>

TsNull == [t |-> 0, null |-> TRUE]
Ts(t) == [t |-> t, null |-> FALSE]

\* gen_random_uuid(), rendered as text: 8-4-4-4-12 hexadecimal digits.
\* The value is random; the model draws the first four groups from two
\* texts (one with letters, one without) and makes the last group the
\* serial number of the row, which keeps generated ids distinct.
uuidLetters == <<"3","f","2","b","7","c","1","e","-","9","a","4","d","-","4","e","8","b","-","a","1","c","6","-">>
uuidZeros == <<"0","0","0","0","0","0","0","0","-","0","0","0","0","-","4","0","0","0","-","8","0","0","0","-">>

uuidPrefixes == {uuidLetters, uuidZeros}

uuidOf(prefix, n) ==
    prefix \o [i \in 1..(12 - Len(numToString(n))) |-> "0"] \o numToString(n)

\* the prefixes of the ids generated for n rows: any mixture
idChoices(n) == [1..n -> uuidPrefixes]

\* bound on the mixtures drawn by a statement that runs inside a larger
\* behaviour: the rows of one INSERT share their prefix
idChoicesSame(n) == {[i \in 1..n |-> p] : p \in uuidPrefixes}

kSupabaseId == <<"_","s","u","p","a","b","a","s","e","_","i","d">>
kGuestId == <<"_","g","u","e","s","t","_","i","d">>

(* ------------------------------------------------------------------ *)
(* GuestTable: derived values                                           *)
(* ------------------------------------------------------------------ *)
\* {...g.guest_data, _supabase_id: g.id, _guest_id: g.guest_id}
attachIds(g) ==
    (kSupabaseId :> CellStr(g.id)) @@ (kGuestId :> CellStr(g.guest_id))
        @@ g.guest_data

\* supabaseGuests.length > 0 ? supabaseGuests.map(...) : data
currentDataOf(guests, data) ==
    IF Len(guests) > 0
    THEN [i \in 1..Len(guests) |-> attachIds(guests[i])]
    ELSE data

currentData(c) == currentDataOf(supabaseGuests[c], guestData[c])

\* JavaScript truthiness of a cell
truthy(cell) ==
    \/ cell.t = "str" /\ cell.s # <<>>
    \/ cell.t = "num" /\ cell.n # 0

possibleIdFields ==
    << <<"i","d">>, <<"I","D">>, <<"I","d">>, <<"c","ó","d","i","g","o">>, <<"c","o","d","i","g","o">>, <<"C","ó","d","i","g","o">>, <<"C","o","d","i","g","o">> >>

\* row[field] !== undefined && row[field] !== null && row[field] !== ""
presentField(row, f) ==
    /\ f \in DOMAIN row
    /\ row[f].t # "null"
    /\ ~(row[f].t = "str" /\ row[f].s = <<>>)

\* getGuestId(row, index); index is the position passed by the caller
getGuestId(row, index) ==
    IF kGuestId \in DOMAIN row /\ truthy(row[kGuestId])
    THEN cellToString(row[kGuestId])
    ELSE LET hit == {i \in 1..Len(possibleIdFields) :
                        presentField(row, possibleIdFields[i])}
         IN IF hit # {}
            THEN cellToString(
                   row[possibleIdFields[CHOOSE i \in hit : \A j \in hit : i <= j]])
            ELSE guestN(index)

\* new Set(guests.filter(g => g.confirmed).map(g => g.guest_id))
confirmedOf(guests) ==
    {guests[i].guest_id : i \in {j \in 1..Len(guests) : guests[j].confirmed}}

\* setConfirmedGuests(prev => toggled copy of prev)
toggleIn(prev, g) == IF g \in prev THEN prev \ {g} ELSE prev \cup {g}

(* ------------------------------------------------------------------ *)
(* The store (hosted Postgres table with realtime publication)          *)
(* ------------------------------------------------------------------ *)
matching(st, g) == {i \in 1..Len(st) : st[i].guest_id = g}

\* mutant: the update is applied only to rows still holding the value the
\* client saw (a version check)
applyUpdateIfUnchanged(st, g, val, at) ==
    [i \in 1..Len(st) |->
        IF st[i].guest_id = g /\ st[i].confirmed = ~val
        THEN [st[i] EXCEPT !.confirmed = val,
                           !.confirmed_at = IF val THEN Ts(at) ELSE TsNull]
        ELSE st[i]]

\* mutant: the update has no WHERE clause
applyUpdateAll(st, g, val, at) ==
    [i \in 1..Len(st) |->
        [st[i] EXCEPT !.confirmed = val,
                      !.confirmed_at = IF val THEN Ts(at) ELSE TsNull]]

\* UPDATE guests SET confirmed, confirmed_at WHERE guest_id = g
applyUpdate(st, g, val, at) ==
    [i \in 1..Len(st) |->
        IF st[i].guest_id = g
        THEN [st[i] EXCEPT !.confirmed = val,
                           !.confirmed_at = IF val THEN Ts(at) ELSE TsNull]
        ELSE st[i]]

\* the unique index idx_guests_guest_id rejects the whole INSERT statement
violatesUnique(st, recs) ==
    \/ \E i, j \in 1..Len(recs) : i # j /\ recs[i].guest_id = recs[j].guest_id
    \/ \E i \in 1..Len(recs) : matching(st, recs[i].guest_id) # {}

\* INSERT: id defaults to a fresh uuid, confirmed_at to NULL, created_at
\* to now(), the time of the statement, the same for all its rows
insertedRows(recs, firstId, pre, now) ==
    [i \in 1..Len(recs) |->
        [guest_id |-> recs[i].guest_id,
         guest_data |-> recs[i].guest_data,
         confirmed |-> recs[i].confirmed,
         id |-> uuidOf(pre[i], firstId + i - 1),
         confirmed_at |-> TsNull,
         created_at |-> now]]

\* select("*").order("created_at", {ascending: true}): the rows sorted by
\* created_at; rows with the same created_at (the rows of one INSERT) come
\* in any order
selectAnswers(st) ==
    {[i \in 1..Len(st) |-> st[q[i]]] :
        q \in {r \in [1..Len(st) -> 1..Len(st)] :
                  /\ \A i, j \in 1..Len(st) : i # j => r[i] # r[j]
                  /\ \A i, j \in 1..Len(st) :
                        i < j => st[r[i]].created_at <= st[r[j]].created_at}}

\* one realtime event per changed row, to every channel of the table: to
\* the channel of a mounted page, and to a channel that is leaving
notify(n) == [c \in Clients |-> events[c] + n * channels[c].open]

notifyLeaving(n) ==
    [c \in Clients |->
        [channels[c] EXCEPT !.late = @ + n * channels[c].leaving]]

(* ------------------------------------------------------------------ *)
(* Initial state: pages not yet mounted                                 *)
(* ------------------------------------------------------------------ *)
\* the table persists across page loads: it is empty, or holds the rows of
\* an earlier upload of bNombres (two rows) or bCodigo (one row), the first
\* row possibly confirmed since.  Bound: the ids of the rows present at the
\* start are drawn with one of the two texts (nothing but the search reads
\* the text of an id).
storesAfterUpload ==
    {insertedRows(guestsToInsert(b.rows, b.headers), 1,
                  [i \in 1..Len(b.rows) |-> uuidLetters], 0) :
        b \in {bNombres, bCodigo}}

InitStores ==
    {<<>>} \cup storesAfterUpload
           \cup {applyUpdate(st, st[1].guest_id, TRUE, 0) : st \in storesAfterUpload}

noChannel == [open |-> 0, late |-> 0, leaving |-> 0]
oneChannel == [open |-> 1, late |-> 0, leaving |-> 0]

noColumns == [done |-> FALSE, shown1 |-> FALSE, in1 |-> <<>>, v1 |-> <<>>, v2 |-> <<>>]

\* useState(true), useState(false), useState<string | null>(null)
uploaderInit == [isOpen |-> TRUE, isLoading |-> FALSE, error |-> "null"]

Init ==
    /\ store \in InitStores
    /\ nextId = Len(store) + 1
    /\ clock = 1
    /\ guestData = [c \in Clients |-> <<>>]
    /\ headers = [c \in Clients |-> <<>>]
    /\ confirmedGuests = [c \in Clients |-> {}]
    /\ supabaseGuests = [c \in Clients |-> <<>>]
    /\ subscribed = [c \in Clients |-> FALSE]
    /\ events = [c \in Clients |-> 0]
    /\ loads = [c \in Clients |-> <<>>]
    /\ toggles = <<>>
    /\ uploads = <<>>
    /\ toast = [c \in Clients |-> "none"]
    /\ nOps = 0
    /\ columns = noColumns
    /\ searchTerm = [c \in Clients |-> <<>>]
    /\ uploader = uploaderInit
    /\ files = <<>>
    /\ channels = [c \in Clients |-> IF subscribed[c] THEN oneChannel ELSE noChannel]

removeAt(seq, i) == SubSeq(seq, 1, i - 1) \o SubSeq(seq, i + 1, Len(seq))

\* live: the page instance that issued the call is still mounted
newLoad == [st |-> "req", snap |-> <<>>, live |-> TRUE]

(* ------------------------------------------------------------------ *)
(* GuestTable: mount effect, realtime callback, loadGuestsFromSupabase  *)
(* ------------------------------------------------------------------ *)
\* supabase.channel(...).on(...).subscribe(): one more live channel
subscribeOne(n) == n + 1

\* supabase.removeChannel(channel): the client asks to leave the channel
\* of this mount.  The call returns a promise that the effect's cleanup
\* does not await; until the leave is acknowledged the channel keeps its
\* callback, and the notifications that were on their way to the page are
\* on their way to that callback.
removeChannel(ch, pending) ==
    [open |-> ch.open - 1, late |-> ch.late + pending, leaving |-> ch.leaving + 1]

\* useEffect on mount: loadGuestsFromSupabase(); channel(...).subscribe()
Mount(c) ==
    /\ ~subscribed[c]
    /\ Len(loads[c]) < MaxLoads
    /\ subscribed' = [subscribed EXCEPT ![c] = TRUE]
    /\ loads' = [loads EXCEPT ![c] = Append(@, newLoad)]
    /\ channels' = [channels EXCEPT ![c].open = subscribeOne(@)]
    /\ UNCHANGED <<searchTerm, uploader, files, columns, store, nextId, clock, guestData, headers, confirmedGuests,
                   supabaseGuests, events, toggles, uploads, toast, nOps>>

\* postgres_changes callback: loadGuestsFromSupabase()
Notified(c) ==
    /\ channels[c].open > 0
    /\ events[c] > 0
    /\ Len(loads[c]) < MaxLoads
    /\ events' = [events EXCEPT ![c] = @ - 1]
    /\ loads' = [loads EXCEPT ![c] = Append(@, newLoad)]
    /\ UNCHANGED <<searchTerm, uploader, files, channels, columns, store, nextId, clock, guestData, headers, confirmedGuests,
                   supabaseGuests, subscribed, toggles, uploads, toast, nOps>>

\* the store answers select("*").order("created_at")
StoreSelect(c, i) ==
    /\ i \in 1..Len(loads[c])
    /\ loads[c][i].st = "req"
    /\ \E snap \in selectAnswers(store) :
          loads' = [loads EXCEPT ![c][i].st = "ok", ![c][i].snap = snap]
    /\ UNCHANGED <<searchTerm, uploader, files, channels, columns, store, nextId, clock, guestData, headers, confirmedGuests,
                   supabaseGuests, subscribed, events, toggles, uploads, toast,
                   nOps>>

\* the select fails (network or store error)
StoreSelectFail(c, i) ==
    /\ nOps < MaxOps
    /\ i \in 1..Len(loads[c])
    /\ loads[c][i].st = "req"
    /\ loads' = [loads EXCEPT ![c][i].st = "err"]
    /\ nOps' = nOps + 1
    /\ UNCHANGED <<searchTerm, uploader, files, channels, columns, store, nextId, clock, guestData, headers, confirmedGuests,
                   supabaseGuests, subscribed, events, toggles, uploads, toast>>

\* mutant: the loaded identifiers are added to the previous set
loadedConfirmedPatched(prev, guests) == prev \cup confirmedOf(guests)

\* the Confirmed Set a successful load installs
loadedConfirmed(prev, guests) == confirmedOf(guests)

\* loadGuestsFromSupabase after its await: install the snapshot, or toast.
\* The set-state calls of a call whose page instance is gone reach no
\* component; toast() does not belong to the instance.
LoadDone(c, i) ==
    /\ i \in 1..Len(loads[c])
    /\ loads[c][i].st # "req"
    /\ loads' = [loads EXCEPT ![c] = removeAt(@, i)]
    /\ IF loads[c][i].st = "ok"
       THEN /\ supabaseGuests' =
                 [supabaseGuests EXCEPT
                    ![c] = IF loads[c][i].live THEN loads[c][i].snap ELSE @]
            /\ confirmedGuests' =
                 [confirmedGuests EXCEPT
                    ![c] = IF loads[c][i].live
                           THEN loadedConfirmed(@, loads[c][i].snap) ELSE @]
            /\ toast' = toast
       ELSE /\ toast' = [toast EXCEPT ![c] = "Error al cargar datos"]
            /\ UNCHANGED <<supabaseGuests, confirmedGuests>>
    /\ UNCHANGED <<searchTerm, uploader, files, channels, columns, store, nextId, clock, guestData, headers, subscribed, events,
                   toggles, uploads, nOps>>

\* calls of a page instance that is gone: their continuations still run
orphaned(seq, c) ==
    [k \in 1..Len(seq) |->
        IF seq[k].c = c THEN [seq[k] EXCEPT !.live = FALSE] ELSE seq[k]]

\* the page is left: the effect's cleanup runs removeChannel, the state of
\* Index, GuestTable and CSVUploader is discarded (the next mount starts
\* from the useState defaults).  Requests in flight are still answered;
\* their continuations find no component.  The cleanup dismisses nothing:
\* the last toast stays as it is.
Unmount(c) ==
    /\ subscribed[c]
    /\ nOps < MaxOps
    /\ nOps' = nOps + 1
    /\ subscribed' = [subscribed EXCEPT ![c] = FALSE]
    /\ channels' = [channels EXCEPT ![c] = removeChannel(@, events[c])]
    /\ events' = [events EXCEPT ![c] = 0]
    /\ loads' = [loads EXCEPT
                   ![c] = [i \in 1..Len(@) |-> [@[i] EXCEPT !.live = FALSE]]]
    /\ toggles' = orphaned(toggles, c)
    /\ uploads' = orphaned(uploads, c)
    /\ files' = IF c = "c1"
                THEN [a \in 1..Len(files) |-> [files[a] EXCEPT !.live = FALSE]]
                ELSE files
    /\ uploader' = IF c = "c1" THEN uploaderInit ELSE uploader
    /\ guestData' = [guestData EXCEPT ![c] = <<>>]
    /\ headers' = [headers EXCEPT ![c] = <<>>]
    /\ searchTerm' = [searchTerm EXCEPT ![c] = <<>>]
    /\ confirmedGuests' = [confirmedGuests EXCEPT ![c] = {}]
    /\ supabaseGuests' = [supabaseGuests EXCEPT ![c] = <<>>]
    /\ UNCHANGED <<columns, store, nextId, clock, toast>>

\* a notification reaches the callback of a channel that is leaving: the
\* callback has no test for its page being mounted and calls
\* loadGuestsFromSupabase() of the page instance that is gone
NotifiedLeaving(c) ==
    /\ channels[c].late > 0
    /\ Len(loads[c]) < MaxLoads
    /\ channels' = [channels EXCEPT ![c].late = @ - 1]
    /\ loads' = [loads EXCEPT ![c] = Append(@, [newLoad EXCEPT !.live = FALSE])]
    /\ UNCHANGED <<searchTerm, uploader, files, columns, store, nextId, clock,
                   guestData, headers, confirmedGuests, supabaseGuests,
                   subscribed, events, toggles, uploads, toast, nOps>>

\* the leave of a channel is acknowledged: the channel is closed and its
\* callback receives nothing more
LeaveAck(c) ==
    /\ channels[c].leaving > 0
    /\ channels' = [channels EXCEPT
                      ![c].leaving = @ - 1,
                      ![c].late = IF channels[c].leaving = 1 THEN 0 ELSE @]
    /\ UNCHANGED <<searchTerm, uploader, files, columns, store, nextId, clock,
                   guestData, headers, confirmedGuests, supabaseGuests,
                   subscribed, events, loads, toggles, uploads, toast, nOps>>

(* ------------------------------------------------------------------ *)
(* GuestTable: the rows shown (search filter)                           *)
(* ------------------------------------------------------------------ *)
\* Object.values(row).some(value =>
\*    value?.toString().toLowerCase().includes(searchTerm.toLowerCase()))
rowMatches(row, term) ==
    \E k \in DOMAIN row :
        /\ row[k].t # "null"
        /\ includes(toLowerCase(cellToString(row[k])), toLowerCase(term))

\* filteredData: every row when the trimmed term is empty
filteredDataOf(rows, term) ==
    IF trim(term) = <<>> THEN rows
    ELSE SelectSeq(rows, LAMBDA row : rowMatches(row, term))

filteredData(c) == filteredDataOf(currentData(c), searchTerm[c])

(* ------------------------------------------------------------------ *)
(* GuestTable: handleConfirmGuest                                       *)
(* ------------------------------------------------------------------ *)
storedConfirmed(g) ==
    IF matching(store, g) = {} THEN "none"
    ELSE IF store[CHOOSE i \in matching(store, g) : TRUE].confirmed
         THEN "true" ELSE "false"

\* mutant: the negation is lost
writtenValueSame(isCurrentlyConfirmed) == isCurrentlyConfirmed

\* the value handleConfirmGuest writes: !isCurrentlyConfirmed
writtenValue(isCurrentlyConfirmed) == ~isCurrentlyConfirmed

\* click on the button of row i of filteredData.map((row, index) => ...),
\* whose identifier is getGuestId(row, index): read confirmedGuests of the
\* current render, send the update.  local, seen and quiet are history
\* fields: the button's state, the stored value and the client's being in
\* sync with the store when the call was made.
ToggleInvoke(c, i) ==
    /\ subscribed[c]
    /\ nOps < MaxOps
    /\ i \in 1..Len(filteredData(c))
    /\ LET g == getGuestId(filteredData(c)[i], i - 1)
       IN toggles' = Append(toggles,
            [g |-> g, c |-> c, st |-> "req",
             val |-> writtenValue(g \in confirmedGuests[c]),
             at |-> clock, live |-> TRUE, matched |-> 0,
             local |-> g \in confirmedGuests[c],
             seen |-> storedConfirmed(g),
             quiet |-> /\ loads[c] = <<>>
                       /\ events[c] = 0
                       /\ supabaseGuests[c] \in selectAnswers(store)
                       /\ confirmedGuests[c] = confirmedOf(store)])
    /\ clock' = clock + 1
    /\ nOps' = nOps + 1
    /\ UNCHANGED <<searchTerm, uploader, files, channels, columns, store, nextId, guestData, headers, confirmedGuests,
                   supabaseGuests, subscribed, events, loads, uploads, toast>>

\* the store applies update(...).eq("guest_id", g); zero matching rows is
\* not an error for the store
StoreUpdate(k) ==
    /\ k \in 1..Len(toggles)
    /\ toggles[k].st = "req"
    /\ store' = applyUpdate(store, toggles[k].g, toggles[k].val, toggles[k].at)
    /\ events' = notify(Cardinality(matching(store, toggles[k].g)))
    /\ channels' = notifyLeaving(Cardinality(matching(store, toggles[k].g)))
    /\ toggles' = [toggles EXCEPT
                     ![k].st = "ok",
                     ![k].matched = Cardinality(matching(store, toggles[k].g))]
    /\ UNCHANGED <<searchTerm, uploader, files, columns, nextId, clock, guestData, headers, confirmedGuests,
                   supabaseGuests, subscribed, loads, uploads, toast, nOps>>

\* the update fails (network or store error): nothing is written
StoreUpdateFail(k) ==
    /\ nOps < MaxOps
    /\ k \in 1..Len(toggles)
    /\ toggles[k].st = "req"
    /\ toggles' = [toggles EXCEPT ![k].st = "err"]
    /\ nOps' = nOps + 1
    /\ UNCHANGED <<searchTerm, uploader, files, channels, columns, store, nextId, clock, guestData, headers, confirmedGuests,
                   supabaseGuests, subscribed, events, loads, uploads, toast>>

\* the local Confirmed Set after a toggle whose update returned no error
toggledSet(prev, g) == toggleIn(prev, g)

\* mutant: the catch block toggles the local set as well
setAfterErrorToggled(prev, g) == toggleIn(prev, g)

\* the local Confirmed Set after a toggle whose update returned an error:
\* the throw skips setConfirmedGuests, the catch block only shows a toast
setAfterError(prev, g) == prev

\* handleConfirmGuest after its await (setConfirmedGuests reaches no
\* component when the page instance of the call is gone)
ToggleDone(k) ==
    /\ k \in 1..Len(toggles)
    /\ toggles[k].st \in {"ok", "err"}
    /\ LET t == toggles[k]
       IN IF t.st = "ok"
          THEN /\ confirmedGuests' =
                    [confirmedGuests EXCEPT
                       ![t.c] = IF t.live THEN toggledSet(@, t.g) ELSE @]
               /\ toast' = [toast EXCEPT
                    ![t.c] = IF t.val THEN "Invitado confirmado"
                                      ELSE "Confirmación cancelada"]
               /\ toggles' = [toggles EXCEPT ![k].st = "success"]
          ELSE /\ toast' = [toast EXCEPT ![t.c] = "Error al actualizar"]
               /\ toggles' = [toggles EXCEPT ![k].st = "failed"]
               /\ confirmedGuests' =
                    [confirmedGuests EXCEPT
                       ![t.c] = IF t.live THEN setAfterError(@, t.g) ELSE @]
    /\ UNCHANGED <<searchTerm, uploader, files, channels, columns, store, nextId, clock, guestData, headers, supabaseGuests,
                   subscribed, events, loads, uploads, nOps>>

(* ------------------------------------------------------------------ *)
(* CSVUploader: saveGuestsToSupabase, then onDataLoad                   *)
(* ------------------------------------------------------------------ *)
\* the store applies delete().neq("id", zero uuid): every row goes; the
\* client then sends the insert
StoreDelete(u) ==
    /\ u \in 1..Len(uploads)
    /\ uploads[u].pc = "delete"
    /\ store' = <<>>
    /\ events' = notify(Len(store))
    /\ channels' = notifyLeaving(Len(store))
    /\ uploads' = [uploads EXCEPT ![u].pc = "insert"]
    /\ UNCHANGED <<searchTerm, uploader, files, columns, nextId, clock, guestData, headers, confirmedGuests,
                   supabaseGuests, subscribed, loads, toggles, toast, nOps>>

\* the delete fails; its result is not inspected, the insert is sent anyway
StoreDeleteFail(u) ==
    /\ nOps < MaxOps
    /\ u \in 1..Len(uploads)
    /\ uploads[u].pc = "delete"
    /\ uploads' = [uploads EXCEPT ![u].pc = "insert"]
    /\ nOps' = nOps + 1
    /\ UNCHANGED <<searchTerm, uploader, files, channels, columns, store, nextId, clock, guestData, headers, confirmedGuests,
                   supabaseGuests, subscribed, events, loads, toggles, toast>>

\* the store applies insert(guestsToInsert) as one statement
StoreInsert(u) ==
    /\ u \in 1..Len(uploads)
    /\ uploads[u].pc = "insert"
    /\ LET b == uploads[u].batch
           recs == guestsToInsert(b.rows, b.headers)
       IN IF violatesUnique(store, recs)
          THEN /\ uploads' = [uploads EXCEPT ![u].pc = "insErr"]
               /\ UNCHANGED <<store, nextId, clock, events, channels>>
          ELSE /\ \E pre \in idChoicesSame(Len(recs)) :
                     store' = store \o insertedRows(recs, nextId, pre, clock)
               /\ nextId' = nextId + Len(recs)
               /\ clock' = clock + 1
               /\ events' = notify(Len(recs))
               /\ channels' = notifyLeaving(Len(recs))
               /\ uploads' = [uploads EXCEPT ![u].pc = "insOk"]
    /\ UNCHANGED <<searchTerm, uploader, files, columns, guestData, headers, confirmedGuests, supabaseGuests,
                   subscribed, loads, toggles, toast, nOps>>

\* the insert fails (network or store error): nothing is written
StoreInsertFail(u) ==
    /\ nOps < MaxOps
    /\ u \in 1..Len(uploads)
    /\ uploads[u].pc = "insert"
    /\ uploads' = [uploads EXCEPT ![u].pc = "insErr"]
    /\ nOps' = nOps + 1
    /\ UNCHANGED <<searchTerm, uploader, files, channels, columns, store, nextId, clock, guestData, headers, confirmedGuests,
                   supabaseGuests, subscribed, events, loads, toggles, toast>>

\* the file attempts whose parsed batch is upload u
attemptsOf(u) == {a \in 1..Len(files) : files[a].up = u}

\* after onDataLoad: setError(null), setIsOpen(false); the spreadsheet path
\* also runs setIsLoading(false) here, the delimited-text path ran it when
\* the parse completed
afterDataLoad(up, u) ==
    [isOpen |-> FALSE,
     isLoading |-> IF \E a \in attemptsOf(u) : files[a].kind = "excel"
                   THEN FALSE ELSE up.isLoading,
     error |-> "null"]

\* saveGuestsToSupabase after the insert: toast (the catch swallows the
\* error); the caller then runs onDataLoad(data, headers), which also
\* resets the search term (handleDataLoad).  The set-state calls reach no
\* component when the page instance of the call is gone.
UploadFinish(u) ==
    /\ u \in 1..Len(uploads)
    /\ uploads[u].pc \in {"insOk", "insErr"}
    /\ LET up == uploads[u]
       IN /\ toast' = [toast EXCEPT
               ![up.c] = IF up.pc = "insOk" THEN "Datos guardados"
                                            ELSE "Error al guardar"]
          /\ uploads' = [uploads EXCEPT
               ![u].pc = IF up.pc = "insOk" THEN "saved" ELSE "saveFailed",
               ![u].fin = 1 + Cardinality({v \in 1..Len(uploads) :
                                              uploads[v].fin > 0})]
          /\ guestData' = [guestData EXCEPT
               ![up.c] = IF up.live THEN up.batch.rows ELSE @]
          /\ headers' = [headers EXCEPT
               ![up.c] = IF up.live THEN up.batch.headers ELSE @]
          /\ searchTerm' = [searchTerm EXCEPT
               ![up.c] = IF up.live THEN <<>> ELSE @]
          /\ uploader' = IF up.live /\ up.c = "c1"
                         THEN afterDataLoad(uploader, u) ELSE uploader
    /\ UNCHANGED <<files, channels, columns, store, nextId, clock, confirmedGuests, supabaseGuests,
                   subscribed, events, loads, toggles, nOps>>

\* a set-state call of the uploader made by a callback: it reaches no
\* component when the page instance that started the callback is gone
setUploader(live, new) == IF live THEN new ELSE uploader

\* the user clicks the header of the panel:
\* <Collapsible open={isOpen} onOpenChange={setIsOpen}>
OpenChange ==
    /\ subscribed["c1"]
    /\ uploader' = [uploader EXCEPT !.isOpen = ~@]
    /\ UNCHANGED <<searchTerm, files, channels, columns, store, nextId, clock,
                   guestData, headers, confirmedGuests, supabaseGuests,
                   subscribed, events, loads, toggles, uploads, toast, nOps>>

(* ------------------------------------------------------------------ *)
(* CSVUploader: the delimited-text parser (Papa.parse, header: true,    *)
(* skipEmptyLines: true, dynamicTyping: true, delimitersToGuess)        *)
(* Fields are split on the delimiter; quoted fields, booleans and       *)
(* fractional numbers do not occur in the inputs.                       *)
(* ------------------------------------------------------------------ *)
RECURSIVE splitOn(_, _)
splitOn(s, ch) ==
    IF \A i \in 1..Len(s) : s[i] # ch THEN <<s>>
    ELSE LET i == CHOOSE k \in 1..Len(s) :
                     s[k] = ch /\ \A j \in 1..(k - 1) : s[j] # ch
         IN <<SubSeq(s, 1, i - 1)>> \o splitOn(SubSeq(s, i + 1, Len(s)), ch)

\* skipEmptyLines: true drops the lines that are empty
csvLines(text) == SelectSeq(splitOn(text, "\n"), LAMBDA l : l # <<>>)

delimitersToGuess == <<",", ";", "\t", "|">>

RECURSIVE sumLens(_, _)
sumLens(rows, i) ==
    IF i > Len(rows) THEN 0 ELSE Len(rows[i]) + sumLens(rows, i + 1)

absDiff(a, b) == IF a >= b THEN a - b ELSE b - a

RECURSIVE deltaOf(_, _)
deltaOf(rows, i) ==
    IF i > Len(rows) THEN 0
    ELSE absDiff(Len(rows[i]), Len(rows[i - 1])) + deltaOf(rows, i + 1)

\* guessDelimiter: the candidate with the most consistent field count,
\* more fields than the candidates before it, and more than 1.99 fields a
\* row on average; best = [found, delim, delta, total]
RECURSIVE guessFrom(_, _, _)
guessFrom(lines, k, best) ==
    IF k > Len(delimitersToGuess) THEN best
    ELSE LET d == delimitersToGuess[k]
             rows == [i \in 1..Len(lines) |-> splitOn(lines[i], d)]
             delta == deltaOf(rows, 2)
             total == sumLens(rows, 1)
             better == /\ (~best.found \/ delta <= best.delta)
                       /\ (~best.found \/ total > best.total)
                       /\ total * 100 > 199 * Len(lines)
         IN guessFrom(lines, k + 1,
                IF better
                THEN [delta |-> delta, total |-> total, found |-> TRUE, delim |-> d]
                ELSE best)

guessDelimiter(lines) ==
    guessFrom(lines, 1, [delta |-> 0, total |-> 0, found |-> FALSE, delim |-> ","])

isDigits(s) ==
    /\ s # <<>>
    /\ \A i \in 1..Len(s) : \E d \in 1..10 : DigitChars[d] = s[i]

digitValue(ch) == (CHOOSE d \in 1..10 : DigitChars[d] = ch) - 1

RECURSIVE parseNat(_)
parseNat(s) ==
    IF s = <<>> THEN 0
    ELSE 10 * parseNat(SubSeq(s, 1, Len(s) - 1)) + digitValue(s[Len(s)])

\* dynamicTyping: true turns a numeric string into a number and an empty
\* field into null
dynamicTyping(s) ==
    IF s = <<>> THEN CellNull
    ELSE IF isDigits(s) THEN CellNum(parseNat(s))
    ELSE CellStr(s)

\* Papa.parse(file): results.errors (as a count), results.meta.fields and
\* results.data
papaParse(text) ==
    LET lines == csvLines(text)
        g == guessDelimiter(lines)
        rows == [i \in 1..Len(lines) |-> splitOn(lines[i], g.delim)]
        fields == IF Len(rows) = 0 THEN <<>> ELSE rows[1]
        ragged == {i \in 2..Len(rows) : Len(rows[i]) # Len(fields)}
    IN [data |-> [i \in 1..(Len(rows) - 1) |->
                    [h \in Range(fields) |->
                        LET j == CHOOSE k \in 1..Len(fields) :
                                    /\ fields[k] = h
                                    /\ \A m \in (k + 1)..Len(fields) : fields[m] # h
                        IN IF j <= Len(rows[i + 1])
                           THEN dynamicTyping(rows[i + 1][j])
                           ELSE CellNull]],
        fields |-> fields,
        errors |-> (IF g.found THEN 0 ELSE 1) + Cardinality(ragged)]

\* value !== null && value !== undefined && value !== ''
nonBlankValue(cell) ==
    /\ cell.t # "null"
    /\ ~(cell.t = "str" /\ cell.s = <<>>)

errNull == "null"
errCsvParse == "Error al procesar CSV"
errCsvEmpty == "El archivo CSV está vacío o no contiene datos válidos"
errCsvNoHeaders == "No se pudieron detectar las columnas del CSV"
errNoValidRows == "No se encontraron filas de datos válidas"
errCsvRead == "Error al leer el archivo"

\* processCSVFile, the complete callback up to the save: the error shown
\* (errNull when the batch is handed to saveGuestsToSupabase) and the batch
csvOutcome(text) ==
    LET r == papaParse(text)
        validData == SelectSeq(r.data,
                        LAMBDA row : \E h \in DOMAIN row : nonBlankValue(row[h]))
        none == [headers |-> <<>>, rows |-> <<>>]
    IN IF r.errors > 0 THEN [error |-> errCsvParse, batch |-> none]
       ELSE IF Len(r.data) = 0 THEN [error |-> errCsvEmpty, batch |-> none]
       ELSE IF Len(r.fields) = 0 THEN [error |-> errCsvNoHeaders, batch |-> none]
       ELSE IF Len(validData) = 0 THEN [error |-> errNoValidRows, batch |-> none]
       ELSE [error |-> errNull,
             batch |-> [headers |-> r.fields, rows |-> validData]]

(* ------------------------------------------------------------------ *)
(* CSVUploader: the spreadsheet path.  jsonData is what sheet_to_json   *)
(* (header: 1, defval: '', raw: false) returns: rows of cell texts      *)
(* ------------------------------------------------------------------ *)
errNoSheet == "El archivo Excel no contiene hojas de trabajo"
errTooFewRows == "El archivo debe contener al menos una fila de encabezados y una fila de datos"
errNoHeaders == "No se pudieron detectar las columnas del archivo"
errExcelRead == "Error al leer el archivo Excel"
errExcelThrown == "Error al procesar archivo Excel"

\* jsonData[0].map(h => String(h).trim()).filter(Boolean)
excelHeaders(jsonData) ==
    SelectSeq([j \in 1..Len(jsonData[1]) |-> trim(jsonData[1][j])],
              LAMBDA h : h # <<>>)

\* row.some(cell => cell && String(cell).trim())
excelRowKept(row) == \E j \in 1..Len(row) : trim(row[j]) # <<>>

\* row[index] || '' with index the (0-based) position of the header among
\* the kept headers
excelCell(row, index) ==
    IF index + 1 <= Len(row) THEN CellStr(row[index + 1]) ELSE CellStr(<<>>)

\* headers.forEach((header, index) => obj[header] = row[index] || ''):
\* a later header of the same name overwrites an earlier one
excelObject(hdrs, row) ==
    [h \in Range(hdrs) |->
        excelCell(row, (CHOOSE k \in 1..Len(hdrs) :
                           /\ hdrs[k] = h
                           /\ \A m \in (k + 1)..Len(hdrs) : hdrs[m] # h) - 1)]

excelDataRows(jsonData, hdrs) ==
    LET kept == SelectSeq(SubSeq(jsonData, 2, Len(jsonData)), excelRowKept)
    IN [i \in 1..Len(kept) |-> excelObject(hdrs, kept[i])]

\* processExcelFile, reader.onload up to the save
excelOutcome(hasSheet, jsonData) ==
    LET none == [headers |-> <<>>, rows |-> <<>>]
    IN IF ~hasSheet THEN [error |-> errNoSheet, batch |-> none]
       ELSE IF Len(jsonData) < 2 THEN [error |-> errTooFewRows, batch |-> none]
       ELSE IF Len(excelHeaders(jsonData)) = 0
            THEN [error |-> errNoHeaders, batch |-> none]
       ELSE IF Len(excelDataRows(jsonData, excelHeaders(jsonData))) = 0
            THEN [error |-> errNoValidRows, batch |-> none]
       ELSE [error |-> errNull,
             batch |-> [headers |-> excelHeaders(jsonData),
                        rows |-> excelDataRows(jsonData, excelHeaders(jsonData))]]

(* ------------------------------------------------------------------ *)
(* CSVUploader: handleFileUpload and the two parse callbacks            *)
(* ------------------------------------------------------------------ *)
\* a file picked by the user.  A delimited-text file is described by its
\* text, a spreadsheet by its first sheet as sheet_to_json returns it; a
\* delimited-text file may instead be described by what Papa.parse returns
\* for it (given: rows and meta.fields that pass every check of the
\* complete callback)
emptyBatch == [headers |-> <<>>, rows |-> <<>>]

aFile(name, size, text, hasSheet, sheet) ==
    [batch |-> emptyBatch, text |-> text, hasSheet |-> hasSheet, name |-> name,
     size |-> size, sheet |-> sheet, given |-> FALSE]

nameCsv == <<"a",".","c","s","v">>
nameCsvUpper == <<"A",".","C","S","V">>
nameXlsx == <<"a",".","x","l","s","x">>
nameXls == <<"a",".","x","l","s">>
nameTxt == <<"a",".","t","x","t">>

parsedFile(batch) ==
    [batch |-> batch, text |-> <<>>, hasSheet |-> FALSE, name |-> nameCsv,
     size |-> 1, sheet |-> <<>>, given |-> TRUE]

MaxFileSize == 10485760

errExtension == "Solo se permiten archivos CSV, XLS y XLSX"
errTooLarge == "El archivo es demasiado grande. Máximo 10MB"

\* String.prototype.endsWith
endsWith(s, t) ==
    /\ Len(t) <= Len(s)
    /\ SubSeq(s, Len(s) - Len(t) + 1, Len(s)) = t

extCsv == <<".","c","s","v">>
extXlsx == <<".","x","l","s","x">>
extXls == <<".","x","l","s">>

\* mutant: no size limit
acceptAnySize(size) == FALSE

\* file.size > 10 * 1024 * 1024
tooLarge(size) == size > MaxFileSize

\* the checks of handleFileUpload: "ext", "size", or the parser chosen
routeOf(file) ==
    LET fileExtension == toLowerCase(file.name)
    IN IF /\ ~endsWith(fileExtension, extCsv)
          /\ ~endsWith(fileExtension, extXlsx)
          /\ ~endsWith(fileExtension, extXls) THEN "ext"
       ELSE IF tooLarge(file.size) THEN "size"
       ELSE IF endsWith(fileExtension, extCsv) THEN "csv"
       ELSE "excel"

\* mutant: a rejected file leaves the uploader loading
rejectedStuck(up, msg) == [up EXCEPT !.error = msg]

\* setError(msg); setIsLoading(false)
rejected(up, msg) == [up EXCEPT !.error = msg, !.isLoading = FALSE]

\* the user picks a file; the input is inside the collapsible panel and is
\* disabled while isLoading.  st is the attempt's position, up the upload it
\* led to (0: none), err the error this attempt set (history), live: the
\* page instance of the call is still mounted
HandleFileUpload(file) ==
    /\ subscribed["c1"]
    /\ uploader.isOpen
    /\ ~uploader.isLoading
    /\ nOps < MaxOps
    /\ nOps' = nOps + 1
    /\ LET route == routeOf(file)
           loading == [uploader EXCEPT !.isLoading = TRUE, !.error = errNull]
       IN /\ files' = Append(files,
                [st |-> IF route \in {"ext", "size"} THEN "rejected" ELSE "parsing",
                 live |-> TRUE, up |-> 0, kind |-> route, file |-> file,
                 err |-> CASE route = "ext" -> errExtension
                           [] route = "size" -> errTooLarge
                           [] OTHER -> errNull])
          /\ uploader' = CASE route = "ext" -> rejected(loading, errExtension)
                           [] route = "size" -> rejected(loading, errTooLarge)
                           [] OTHER -> loading
    /\ UNCHANGED <<searchTerm, channels, columns, store, nextId, clock,
                   guestData, headers, confirmedGuests, supabaseGuests,
                   subscribed, events, loads, toggles, uploads, toast>>

\* a parsed batch passes validation: saveGuestsToSupabase sends the delete
\* (fin is a history field: the order in which uploads finish; live: the
\* page instance of the call is still mounted)
startSave(a, batch) ==
    /\ uploads' = Append(uploads,
                  [c |-> "c1", live |-> files[a].live, pc |-> "delete", batch |-> batch,
                   fin |-> 0])
    /\ files' = [files EXCEPT ![a].st = "saving", ![a].up = Len(uploads) + 1]

\* Papa.parse complete callback: setIsLoading(false), then the checks
CsvComplete(a) ==
    /\ a \in 1..Len(files)
    /\ files[a].st = "parsing" /\ files[a].kind = "csv"
    /\ ~files[a].file.given
    /\ LET out == csvOutcome(files[a].file.text)
       IN IF out.error = errNull
          THEN /\ startSave(a, out.batch)
               /\ uploader' = setUploader(files[a].live,
                                  [uploader EXCEPT !.isLoading = FALSE])
          ELSE /\ files' = [files EXCEPT ![a].st = "invalid", ![a].err = out.error]
               /\ uploader' = setUploader(files[a].live,
                                  rejected(uploader, out.error))
               /\ UNCHANGED uploads
    /\ UNCHANGED <<searchTerm, channels, columns, store, nextId, clock,
                   guestData, headers, confirmedGuests, supabaseGuests,
                   subscribed, events, loads, toggles, toast, nOps>>

\* Papa.parse complete callback for a file given by its parse result:
\* setIsLoading(false), every check passes, saveGuestsToSupabase sends the
\* delete
UploadStart(a) ==
    /\ a \in 1..Len(files)
    /\ files[a].st = "parsing" /\ files[a].kind = "csv"
    /\ files[a].file.given
    /\ startSave(a, files[a].file.batch)
    /\ uploader' = setUploader(files[a].live,
                       [uploader EXCEPT !.isLoading = FALSE])
    /\ UNCHANGED <<searchTerm, channels, columns, store, nextId, clock,
                   guestData, headers, confirmedGuests, supabaseGuests,
                   subscribed, events, loads, toggles, toast, nOps>>

\* Papa.parse error callback: the file could not be read
CsvError(a) ==
    /\ a \in 1..Len(files)
    /\ files[a].st = "parsing" /\ files[a].kind = "csv"
    /\ files' = [files EXCEPT ![a].st = "unread", ![a].err = errCsvRead]
    /\ uploader' = setUploader(files[a].live, rejected(uploader, errCsvRead))
    /\ UNCHANGED <<searchTerm, channels, columns, store, nextId, clock,
                   guestData, headers, confirmedGuests, supabaseGuests,
                   subscribed, events, loads, toggles, uploads, toast, nOps>>

\* FileReader onload of processExcelFile
ExcelLoad(a) ==
    /\ a \in 1..Len(files)
    /\ files[a].st = "parsing" /\ files[a].kind = "excel"
    /\ LET out == excelOutcome(files[a].file.hasSheet, files[a].file.sheet)
       IN IF out.error = errNull
          THEN /\ startSave(a, out.batch)
               /\ UNCHANGED uploader
          ELSE /\ files' = [files EXCEPT ![a].st = "invalid", ![a].err = out.error]
               /\ uploader' = setUploader(files[a].live,
                                  rejected(uploader, out.error))
               /\ UNCHANGED uploads
    /\ UNCHANGED <<searchTerm, channels, columns, store, nextId, clock,
                   guestData, headers, confirmedGuests, supabaseGuests,
                   subscribed, events, loads, toggles, toast, nOps>>

\* FileReader onerror, or XLSX.read throws and the catch runs
ExcelError(a, msg) ==
    /\ a \in 1..Len(files)
    /\ files[a].st = "parsing" /\ files[a].kind = "excel"
    /\ msg \in {errExcelRead, errExcelThrown}
    /\ files' = [files EXCEPT ![a].st = "unread", ![a].err = msg]
    /\ uploader' = setUploader(files[a].live, rejected(uploader, msg))
    /\ UNCHANGED <<searchTerm, channels, columns, store, nextId, clock,
                   guestData, headers, confirmedGuests, supabaseGuests,
                   subscribed, events, loads, toggles, uploads, toast, nOps>>

(* ------------------------------------------------------------------ *)
(* Specification                                                        *)
(* ------------------------------------------------------------------ *)
\* One page (client c1): files picked (given by their parse result),
\* uploads, toggles, reloads and store failures
Next ==
    \/ Mount("c1")
    \/ Notified("c1")
    \/ \E i \in 1..Len(loads["c1"]) : StoreSelect("c1", i)
    \/ \E i \in 1..Len(loads["c1"]) : StoreSelectFail("c1", i)
    \/ \E i \in 1..Len(loads["c1"]) : LoadDone("c1", i)
    \/ \E i \in 1..Len(currentData("c1")) : ToggleInvoke("c1", i)
    \/ \E k \in 1..Len(toggles) : StoreUpdate(k)
    \/ \E k \in 1..Len(toggles) : StoreUpdateFail(k)
    \/ \E k \in 1..Len(toggles) : ToggleDone(k)
    \/ \E batch \in MainBatches : HandleFileUpload(parsedFile(batch))
    \/ \E a \in 1..Len(files) : UploadStart(a)
    \/ \E u \in 1..Len(uploads) : StoreDelete(u)
    \/ \E u \in 1..Len(uploads) : StoreDeleteFail(u)
    \/ \E u \in 1..Len(uploads) : StoreInsert(u)
    \/ \E u \in 1..Len(uploads) : StoreInsertFail(u)
    \/ \E u \in 1..Len(uploads) : UploadFinish(u)
    \/ OpenChange

Spec == Init /\ [][Next]_vars

\* Two pages on one table: toggles and reloads of both clients, interleaved
NextTwo ==
    \/ \E c \in Clients : Mount(c)
    \/ \E c \in Clients : Notified(c)
    \/ \E c \in Clients : \E i \in 1..Len(loads[c]) : StoreSelect(c, i)
    \/ \E c \in Clients : \E i \in 1..Len(loads[c]) : LoadDone(c, i)
    \/ \E c \in Clients : \E i \in 1..Len(currentData(c)) : ToggleInvoke(c, i)
    \/ \E k \in 1..Len(toggles) : StoreUpdate(k)
    \/ \E k \in 1..Len(toggles) : ToggleDone(k)

\* bound: with two pages the table starts with at most MaxSharedRows rows
InitTwo == Init /\ Len(store) <= MaxSharedRows

SpecTwo == InitTwo /\ [][NextTwo]_vars

(* ------------------------------------------------------------------ *)
(* Uploader specification: one upload of any batch, with store failures *)
(* ------------------------------------------------------------------ *)
\* the page is open: the state Mount("c1") leaves
InitUpload ==
    /\ store \in InitStores
    /\ nextId = Len(store) + 1
    /\ clock = 1
    /\ guestData = [c \in Clients |-> <<>>]
    /\ headers = [c \in Clients |-> <<>>]
    /\ confirmedGuests = [c \in Clients |-> {}]
    /\ supabaseGuests = [c \in Clients |-> <<>>]
    /\ subscribed = [c \in Clients |-> c = "c1"]
    /\ events = [c \in Clients |-> 0]
    /\ loads = [c \in Clients |-> IF c = "c1" THEN <<newLoad>> ELSE <<>>]
    /\ toggles = <<>>
    /\ uploads = <<>>
    /\ toast = [c \in Clients |-> "none"]
    /\ nOps = 0
    /\ columns = noColumns
    /\ searchTerm = [c \in Clients |-> <<>>]
    /\ uploader = uploaderInit
    /\ files = <<>>
    /\ channels = [c \in Clients |-> IF subscribed[c] THEN oneChannel ELSE noChannel]

NextUpload ==
    \/ \E batch \in UploadBatches : files = <<>> /\ HandleFileUpload(parsedFile(batch))
    \/ \E a \in 1..Len(files) : UploadStart(a)
    \/ \E u \in 1..Len(uploads) : StoreDelete(u)
    \/ \E u \in 1..Len(uploads) : StoreDeleteFail(u)
    \/ \E u \in 1..Len(uploads) : StoreInsert(u)
    \/ \E u \in 1..Len(uploads) : StoreInsertFail(u)
    \/ \E u \in 1..Len(uploads) : UploadFinish(u)
    \/ OpenChange

SpecUpload == InitUpload /\ [][NextUpload]_vars

\* Pages that come and go: c1 starts open, either page is left and opened
\* again while the other one writes to the table
NextMount ==
    \/ \E c \in Clients : Mount(c)
    \/ \E c \in Clients : Unmount(c)
    \/ \E c \in Clients : NotifiedLeaving(c)
    \/ \E c \in Clients : LeaveAck(c)
    \/ \E c \in Clients : Notified(c)
    \/ \E c \in Clients : \E i \in 1..Len(loads[c]) : StoreSelect(c, i)
    \/ \E c \in Clients : \E i \in 1..Len(loads[c]) : LoadDone(c, i)
    \/ \E c \in Clients : \E i \in 1..Len(currentData(c)) : ToggleInvoke(c, i)
    \/ \E k \in 1..Len(toggles) : StoreUpdate(k)
    \/ \E k \in 1..Len(toggles) : ToggleDone(k)

\* bound: with two pages the table starts with at most MaxSharedRows rows
InitMount == InitUpload /\ Len(store) <= MaxSharedRows

SpecMount == InitMount /\ [][NextMount]_vars

(* ------------------------------------------------------------------ *)
(* File specification: files picked on one page, parsed, validated,    *)
(* saved                                                                *)
(* ------------------------------------------------------------------ *)
csvTwoRows == <<"a",",","b","\n","1",",","2","\n","3",",","4">>
csvTwoRowsNl == <<"a",",","b","\n","1",",","2","\n","3",",","4","\n">>
csvTwoRowsNlNl == <<"a",",","b","\n","1",",","2","\n","3",",","4","\n","\n","\n">>
csvEmpty == <<>>
csvHeaderOnly == <<"a",",","b","\n">>
csvBlankHeaders == <<" ",","," "," ","\n","1",",","2">>
csvBlankRow == <<"a",",","b","\n",",">>
csvRagged == <<"a",",","b","\n","1">>
csvCodigo == <<"C","ó","d","i","g","o",";","N","o","m","b","r","e","\n","0","0","7",";","A","n","a">>
csvBlankHeadersOnly == <<" ",","," "," ","\n">>
csvOneColumn == <<"N","o","m","b","r","e","\n","A","n","a">>

xlsRows == <<<<<<"a">>, <<"b">>>>, <<<<"1">>, <<"2">>>>, <<<<"3">>, <<"4">>>>>>
xlsNoRows == <<>>
xlsHeaderOnly == <<<<<<"a">>, <<"b">>>>>>
xlsBlankHeaders == <<<<<<>>, <<" ">>>>, <<<<"1">>, <<"2">>>>>>
xlsBlankRow == <<<<<<"a">>, <<"b">>>>, <<<<>>, <<" ">>>>>>
xlsShifted == <<<<<<>>, <<"N","o","m","b","r","e">>>>, <<<<"x">>, <<"A","n","a">>>>>>
xlsShortRow == <<<<<<"N","o","m","b","r","e">>, <<"C","ó","d","i","g","o">>>>, <<<<"A","n","a">>>>>>
xlsBlankHeadersBlankRow == <<<<<<>>>>, <<<<>>>>>>
xlsBlankHeaderOnly == <<<<<<>>, <<" "," ">>>>>>

CsvTexts ==
    {csvTwoRows, csvTwoRowsNl, csvTwoRowsNlNl, csvEmpty, csvHeaderOnly, csvBlankHeaders,
     csvBlankRow, csvRagged, csvCodigo, csvBlankHeadersOnly, csvOneColumn}

Sheets ==
    {xlsRows, xlsNoRows, xlsHeaderOnly, xlsBlankHeaders, xlsBlankRow,
     xlsShifted, xlsShortRow, xlsBlankHeadersBlankRow, xlsBlankHeaderOnly}

FilePool ==
    {aFile(nameCsv, 1, t, FALSE, <<>>) : t \in CsvTexts}
    \cup {aFile(nameXlsx, 1, <<>>, TRUE, sh) : sh \in Sheets}
    \cup {aFile(nameXlsx, 1, <<>>, FALSE, <<>>)}
    \cup {aFile(n, MaxFileSize + 1, csvTwoRows, TRUE, xlsRows) :
             n \in {nameCsv, nameXlsx, nameXls, nameTxt}}
    \cup {aFile(nameCsvUpper, MaxFileSize, csvTwoRows, FALSE, <<>>),
          aFile(nameXls, MaxFileSize, <<>>, TRUE, xlsRows),
          aFile(nameTxt, 1, csvTwoRows, FALSE, <<>>)}

NextFile ==
    \/ \E file \in FilePool : HandleFileUpload(file)
    \/ \E a \in 1..Len(files) : CsvComplete(a)
    \/ \E a \in 1..Len(files) : CsvError(a)
    \/ \E a \in 1..Len(files) : ExcelLoad(a)
    \/ \E a \in 1..Len(files) : \E msg \in {errExcelRead, errExcelThrown} : ExcelError(a, msg)
    \/ \E u \in 1..Len(uploads) : StoreDelete(u)
    \/ \E u \in 1..Len(uploads) : StoreDeleteFail(u)
    \/ \E u \in 1..Len(uploads) : StoreInsert(u)
    \/ \E u \in 1..Len(uploads) : StoreInsertFail(u)
    \/ \E u \in 1..Len(uploads) : UploadFinish(u)
    \/ OpenChange

SpecFile == InitUpload /\ [][NextFile]_vars

(* ------------------------------------------------------------------ *)
(* Progress specification: the same page over fewer files, with every   *)
(* callback and every store request eventually answered                 *)
(* ------------------------------------------------------------------ *)
LivePool ==
    {aFile(nameCsv, 1, t, FALSE, <<>>) : t \in {csvTwoRows, csvEmpty, csvBlankRow}}
    \cup {aFile(nameXlsx, 1, <<>>, TRUE, sh) : sh \in {xlsRows, xlsNoRows}}
    \cup {aFile(nameXlsx, 1, <<>>, FALSE, <<>>),
          aFile(nameCsv, MaxFileSize + 1, csvTwoRows, FALSE, <<>>),
          aFile(nameTxt, 1, csvTwoRows, FALSE, <<>>)}

NextLive ==
    \/ \E file \in LivePool : HandleFileUpload(file)
    \/ \E a \in 1..Len(files) : CsvComplete(a)
    \/ \E a \in 1..Len(files) : CsvError(a)
    \/ \E a \in 1..Len(files) : ExcelLoad(a)
    \/ \E a \in 1..Len(files) : \E msg \in {errExcelRead, errExcelThrown} : ExcelError(a, msg)
    \/ \E u \in 1..Len(uploads) : StoreDelete(u)
    \/ \E u \in 1..Len(uploads) : StoreDeleteFail(u)
    \/ \E u \in 1..Len(uploads) : StoreInsert(u)
    \/ \E u \in 1..Len(uploads) : StoreInsertFail(u)
    \/ \E u \in 1..Len(uploads) : UploadFinish(u)
    \/ OpenChange

\* Papa.parse calls complete or error, FileReader fires onload or onerror,
\* every store request returns data or an error, every await resumes
FairLive ==
    /\ WF_vars(\E a \in 1..Len(files) : CsvError(a) \/ CsvComplete(a))
    /\ WF_vars(\E a \in 1..Len(files) :
                 ExcelLoad(a) \/ \E msg \in {errExcelRead, errExcelThrown} : ExcelError(a, msg))
    /\ WF_vars(\E u \in 1..Len(uploads) : StoreDelete(u) \/ StoreDeleteFail(u))
    /\ WF_vars(\E u \in 1..Len(uploads) : StoreInsert(u) \/ StoreInsertFail(u))
    /\ WF_vars(\E u \in 1..Len(uploads) : UploadFinish(u))

SpecLive == InitUpload /\ [][NextLive]_vars /\ FairLive

(* ------------------------------------------------------------------ *)
(* GuestTable: search filter and empty states                           *)
(* ------------------------------------------------------------------ *)
\* what the first variant renders below the header of the page
viewNoData == "No hay invitados cargados"
viewNoResults == "Invitado no encontrado"
viewTable == "table"

renderView1(rows, filtered, term) ==
    IF Len(rows) = 0 THEN viewNoData
    ELSE IF Len(filtered) = 0 /\ term # <<>> THEN viewNoResults
    ELSE viewTable

\* the second variant has one return statement: the search box and the
\* table, whose body is filteredData.map(...)
renderView2(rows, filtered, term) == viewTable

view1(c) == renderView1(currentData(c), filteredData(c), searchTerm[c])
view2(c) == renderView2(currentData(c), filteredData(c), searchTerm[c])

\* the GuestTable variants (first and second file of part_001)
Variants == {1, 2}

\* the search box is rendered: the first variant returns the "no data"
\* card before the <Input> when there are no rows, the second always
\* renders it
searchBoxShown(c, variant) == variant = 2 \/ Len(currentData(c)) > 0

\* onSearchChange(e.target.value): Index.setSearchTerm
SearchChange(c, term, variant) ==
    /\ subscribed[c]
    /\ searchBoxShown(c, variant)
    /\ searchTerm[c] # term
    /\ searchTerm' = [searchTerm EXCEPT ![c] = term]
    /\ UNCHANGED <<uploader, files, channels, columns, store, nextId, clock,
                   guestData, headers, confirmedGuests, supabaseGuests,
                   subscribed, events, loads, toggles, uploads, toast, nOps>>

(* ------------------------------------------------------------------ *)
(* Search specification: a mounted table over loaded or local rows      *)
(* ------------------------------------------------------------------ *)
bMixed ==
    [headers |-> <<hCodigo, hNombre>>,
     rows |-> << (hCodigo :> CellNum(7)) @@ (hNombre :> CellStr(<<"A","n","a">>)),
                 (hCodigo :> CellNull) @@ (hNombre :> CellStr(<<"L","u","i","s">>)) >>]

SearchStores ==
    {<<>>}
      \cup {insertedRows(guestsToInsert(bNombres.rows, bNombres.headers), 1, pre, 0) :
               pre \in idChoices(Len(bNombres.rows))}
           \cup {insertedRows(guestsToInsert(bMixed.rows, bMixed.headers), 1, pre, 0) :
                    pre \in idChoices(Len(bMixed.rows))}

SearchBatches == { <<>>, bNombres.rows, bMixed.rows, bCodigo.rows }

SearchTerms ==
    { <<>>, <<" ">>, <<"a","n">>, <<"A","N">>, <<"a","n"," ">>, <<"l","u","i","s">>,
      <<"g","u","e","s","t">>, <<"u">>, <<"7">>, <<"z","z">>, <<"A","1">>, <<"_","2">>,
      <<"-">> }

\* the headers handed over with the rows (onDataLoad(data, headers))
searchHeaders(rows) ==
    IF rows = <<>> THEN <<>>
    ELSE (CHOOSE b \in {bNombres, bMixed, bCodigo} : b.rows = rows).headers

InitSearch ==
    /\ store \in SearchStores
    /\ nextId = Len(store) + 1
    /\ clock = 1
    /\ guestData \in [Clients -> SearchBatches]
    /\ guestData["c2"] = <<>>
    /\ headers = [c \in Clients |-> searchHeaders(guestData[c])]
    /\ \E snap \in selectAnswers(store) :
          supabaseGuests = [c \in Clients |-> IF c = "c1" THEN snap ELSE <<>>]
    /\ confirmedGuests = [c \in Clients |-> {}]
    /\ subscribed = [c \in Clients |-> c = "c1"]
    /\ events = [c \in Clients |-> 0]
    /\ loads = [c \in Clients |-> <<>>]
    /\ toggles = <<>>
    /\ uploads = <<>>
    /\ toast = [c \in Clients |-> "none"]
    /\ nOps = 0
    /\ columns = noColumns
    /\ searchTerm = [c \in Clients |-> <<>>]
    /\ uploader = uploaderInit
    /\ files = <<>>
    /\ channels = [c \in Clients |-> IF subscribed[c] THEN oneChannel ELSE noChannel]

NextSearch ==
    \/ \E term \in SearchTerms : \E variant \in Variants : SearchChange("c1", term, variant)
    \/ OpenChange

SpecSearch == InitSearch /\ [][NextSearch]_vars

(* ------------------------------------------------------------------ *)
(* Column Orderer specification: a mounted page whose table is loaded,  *)
(* any list of distinct headers handed over with one row, rendered      *)
(* ------------------------------------------------------------------ *)
HeaderPool ==
    { <<"D","N","I">>, <<"d","n","i"," ">>, <<"N","o","m","b","r","e">>, <<"A","p","e","l","l","i","d","o"," ","y"," ","N","o","m","b","r","e">>, <<"M","o","t","o">>,
      <<"E","m","a","i","l">>, <<"n","o","m","b","r","e"," ","c","o","m","p","l","e","t","o">> }

distinctSeqs(S, n) ==
    {q \in UNION {[1..k -> S] : k \in 0..n} :
        \A i, j \in 1..Len(q) : i # j => q[i] # q[j]}

\* Object.keys(row): the keys in the order of the JSON object the store
\* returned; a JSONB column does not keep the order in which the keys were
\* written, so every order is allowed for
objectKeys(row) ==
    {q \in distinctSeqs(DOMAIN row, Cardinality(DOMAIN row)) :
        Len(q) = Cardinality(DOMAIN row)}

\* the list the first variant passes to getOrderedHeaders:
\* supabaseGuests.length > 0 ? Object.keys(supabaseGuests[0].guest_data)
\*                           : headers
headerInputs1(c) ==
    IF Len(supabaseGuests[c]) > 0
    THEN objectKeys(supabaseGuests[c][1].guest_data)
    ELSE {headers[c]}

\* the rows handed over with the headers: one row with a value per header
orderRows(hdrs) ==
    IF hdrs = <<>> THEN <<>>
    ELSE << [h \in Range(hdrs) |-> CellStr(<<"x">>)] >>

InitOrder ==
    /\ store \in SearchStores
    /\ nextId = Len(store) + 1
    /\ clock = 1
    /\ \E hs \in distinctSeqs(HeaderPool, MaxHeaders) :
          headers = [c \in Clients |-> IF c = "c1" THEN hs ELSE <<>>]
    /\ guestData = [c \in Clients |-> orderRows(headers[c])]
    /\ confirmedGuests = [c \in Clients |-> {}]
    /\ \E snap \in selectAnswers(store) :
          supabaseGuests = [c \in Clients |-> IF c = "c1" THEN snap ELSE <<>>]
    /\ subscribed = [c \in Clients |-> c = "c1"]
    /\ events = [c \in Clients |-> 0]
    /\ loads = [c \in Clients |-> <<>>]
    /\ toggles = <<>>
    /\ uploads = <<>>
    /\ toast = [c \in Clients |-> "none"]
    /\ nOps = 0
    /\ columns = noColumns
    /\ searchTerm = [c \in Clients |-> <<>>]
    /\ uploader = uploaderInit
    /\ files = <<>>
    /\ channels = [c \in Clients |-> IF subscribed[c] THEN oneChannel ELSE noChannel]

\* the header row of the table after the fixed columns.  First variant:
\* rendered only in the table view (not in the "no data" and "no results"
\* returns), getOrderedHeaders of the keys of the first loaded row or, with
\* nothing loaded, of headers.  Second variant: getOrderedHeaders(headers).
\* shown1 and in1 record whether the first variant rendered a header row
\* and the list it ordered.
RenderHeaders ==
    /\ ~columns.done
    /\ subscribed["c1"]
    /\ \E ks \in headerInputs1("c1") :
          columns' = [done |-> TRUE,
                      shown1 |-> view1("c1") = viewTable,
                      in1 |-> IF view1("c1") = viewTable THEN ks ELSE <<>>,
                      v1 |-> IF view1("c1") = viewTable
                             THEN getOrderedHeaders(ks) ELSE <<>>,
                      v2 |-> getOrderedHeaders2(headers["c1"])]
    /\ UNCHANGED <<store, nextId, clock, guestData, headers, confirmedGuests,
                   supabaseGuests, subscribed, events, loads, toggles, uploads,
                   toast, nOps, searchTerm, uploader, files, channels>>

NextOrder == RenderHeaders

SpecOrder == InitOrder /\ [][NextOrder]_vars

(* ================================================================== *)
(* Claims                                                               *)
(* ================================================================== *)
persisted(u) == uploads[u].pc \in {"insOk", "insErr", "saved", "saveFailed"}

\* C1 (as claimed): once the persistence step of an upload has finished
\* (no store failure injected), the table holds exactly one record per row
\* of the batch, each with confirmed = false -- also when two rows derive
\* the same guest_id.
C1_ReplaceAllCount ==
    \A u \in 1..Len(uploads) :
        (persisted(u) /\ nOps = 1) =>
            /\ Len(store) = Len(uploads[u].batch.rows)
            /\ \A i \in 1..Len(store) : ~store[i].confirmed

\* C2: for every list of distinct headers, the header row of either
\* GuestTable variant holds every input header exactly once and nothing else.
isPermutationOf(out, inp) ==
    /\ Len(out) = Len(inp)
    /\ \A i \in 1..Len(out) : arrIncludes(inp, out[i])
    /\ \A j \in 1..Len(inp) :
          Cardinality({i \in 1..Len(out) : out[i] = inp[j]}) = 1

C2_OrderedHeadersPermutation ==
    columns.done =>
        /\ columns.shown1 => isPermutationOf(columns.v1, columns.in1)
        /\ isPermutationOf(columns.v2, headers["c1"])

\* C2 witness: a list whose headers are placed by the exact pass, the
\* partial pass and the rest pass, reordered by both variants
C2_Witness ==
    /\ columns.done /\ columns.shown1
    /\ columns.in1 = headers["c1"]
    /\ headers["c1"] = << <<"E","m","a","i","l">>, <<"M","o","t","o">>, <<"D","N","I">> >>
    /\ columns.v1 = << <<"D","N","I">>, <<"M","o","t","o">>, <<"E","m","a","i","l">> >>
    /\ columns.v2 = << <<"D","N","I">>, <<"E","m","a","i","l">>, <<"M","o","t","o">> >>

\* the identifier rule, stated per row n (1-based) of a batch
firstIdHeader(hdrs) ==
    hdrs[CHOOSE i \in 1..Len(hdrs) :
            /\ isIdHeader(hdrs[i])
            /\ \A j \in 1..(i - 1) : ~isIdHeader(hdrs[j])]

hasIdHeader(hdrs) == \E i \in 1..Len(hdrs) : isIdHeader(hdrs[i])

\* the string value of a cell, the empty string for an empty cell
cellText(cell) == IF cell.t = "null" THEN <<>> ELSE cellToString(cell)

\* C3 (as claimed): the guest_id persisted for row n is the string value of
\* the row's cell under a header containing "id", "código" or "codigo"
\* whenever such a header exists, and guest_n when none exists.
C3_IdentifierAsClaimed ==
    \A u \in 1..Len(uploads) :
        (uploads[u].pc = "insOk" /\ nOps = 1) =>
            LET b == uploads[u].batch
            IN \A n \in 1..Len(b.rows) :
                  store[n].guest_id =
                     IF hasIdHeader(b.headers)
                     THEN cellText(b.rows[n][firstIdHeader(b.headers)])
                     ELSE guestN(n)

\* C3 (amended): the guest_id persisted for row n is the string value of
\* the row's cell under the first header containing "id", "código" or
\* "codigo" when such a header exists and that string is not empty; it is
\* guest_n when no such header exists or the cell is empty or null.
C3_IdentifierRule ==
    \A u \in 1..Len(uploads) :
        (uploads[u].pc = "insOk" /\ nOps = 1) =>
            LET b == uploads[u].batch
            IN \A n \in 1..Len(b.rows) :
                  store[n].guest_id =
                     IF /\ hasIdHeader(b.headers)
                        /\ cellText(b.rows[n][firstIdHeader(b.headers)]) # <<>>
                     THEN cellText(b.rows[n][firstIdHeader(b.headers)])
                     ELSE guestN(n)

\* C3 witness: an upload with a Código column persisted, one row taking its
\* cell ("A1"), one row with an empty cell taking guest_2
C3_Witness ==
    \E u \in 1..Len(uploads) :
        /\ uploads[u].pc = "insOk"
        /\ uploads[u].batch.headers = <<hCodigo, hNombre>>
        /\ Len(store) = 2
        /\ store[1].guest_id = <<"A","1">>
        /\ Len(uploads[u].batch.rows) = 2
        /\ uploads[u].batch.rows[2][hCodigo] = CellNull
        /\ store[2].guest_id = <<"g","u","e","s","t","_","2">>

applied(k) ==
    /\ k \in 1..Len(toggles) /\ k \in 1..Len(toggles')
    /\ toggles[k].st = "req" /\ toggles'[k].st = "ok"

\* C4 (as claimed): every successful toggle on a guest_id that has a record
\* leaves that record with confirmed equal to the negation of the value
\* stored immediately before the update, and confirmed_at non-null exactly
\* when the new value is true -- also when another client changed the record
\* since this client's last reload.  Stated for toggles of a client that
\* has no other toggle in the log, so that a stale value can only come from
\* the other client.
firstOfClient(k) ==
    \A j \in 1..Len(toggles) : toggles[j].c = toggles[k].c => j = k

C4_ToggleNegatesStored ==
    [][\A k \in 1..Len(toggles) : (applied(k) /\ firstOfClient(k)) =>
          \A i \in matching(store, toggles[k].g) :
              /\ store'[i].confirmed = ~store[i].confirmed
              /\ store'[i].confirmed_at.null = ~store'[i].confirmed]_vars

\* C4 (amended): every successful toggle on a guest_id that has a record
\* leaves that record with confirmed equal to the negation of the guest's
\* membership in the client's local Confirmed Set when the toggle was
\* invoked (the negation of the stored value only if the two agree), and
\* confirmed_at non-null exactly when the new value is true.
C4_ToggleNegatesLocal ==
    [][\A k \in 1..Len(toggles) : applied(k) =>
          \A i \in matching(store, toggles[k].g) :
              /\ store'[i].confirmed = ~toggles[k].local
              /\ store'[i].confirmed_at.null = ~store'[i].confirmed
              /\ (toggles[k].local = store[i].confirmed
                    => store'[i].confirmed = ~store[i].confirmed)]_vars

\* C4 witness: an update was applied for a client's first toggle, invoked
\* while its local set was stale after the other client's toggle (the record
\* was confirmed, the button showed unconfirmed)
C4_Witness ==
    \E k \in 1..Len(toggles) :
        /\ toggles[k].st = "ok"
        /\ firstOfClient(k)
        /\ Len(toggles) = 2
        /\ toggles[k].matched = 1
        /\ toggles[k].seen = "true"
        /\ ~toggles[k].local
        /\ storedConfirmed(toggles[k].g) = "true"

\* C5 (as claimed): two toggles of one client on the same guest, with no
\* other writer, return the stored confirmed value to what it was before
\* the first -- also when the second is invoked before the first's response
\* has been processed.
C5_DoubleToggleRestores ==
    (/\ Len(toggles) = 2
     /\ uploads = <<>>
     /\ toggles[1].c = toggles[2].c
     /\ toggles[1].g = toggles[2].g
     /\ toggles[1].st = "success" /\ toggles[2].st = "success"
     /\ toggles[1].matched = 1 /\ toggles[2].matched = 1)
        => storedConfirmed(toggles[1].g) = toggles[1].seen

\* C6 (as claimed): a toggle on a guest identifier that matches no record
\* ends in the update-failed outcome and reports no success.
C6_MissingRecordFails ==
    \A k \in 1..Len(toggles) :
        (toggles[k].st \in {"success", "failed"} /\ toggles[k].matched = 0)
            => /\ toggles[k].st = "failed"
               /\ toast[toggles[k].c] \notin
                     {"Invitado confirmado", "Confirmación cancelada"}

\* C7: mounting and every delivered change notification issue a loadAll,
\* and a loadAll that completes successfully replaces the local Confirmed
\* Set by exactly the guest_ids of the returned records with confirmed =
\* true (and the snapshot by the returned records).
C7_ReloadRecomputes ==
    [][\A c \in Clients :
          /\ (~subscribed[c] /\ subscribed'[c])
                => /\ Len(loads'[c]) = Len(loads[c]) + 1
                   /\ loads'[c][Len(loads'[c])].st = "req"
          /\ (events'[c] < events[c])
                => /\ Len(loads'[c]) = Len(loads[c]) + 1
                   /\ loads'[c][Len(loads'[c])].st = "req"
          /\ \A i \in 1..Len(loads[c]) :
                (loads'[c] = removeAt(loads[c], i) /\ loads[c][i].st = "ok")
                   => /\ supabaseGuests'[c] = loads[c][i].snap
                      /\ confirmedGuests'[c] =
                           {r.guest_id : r \in {x \in Range(loads[c][i].snap) :
                                                   x.confirmed}}]_vars

\* C7 witness: a reload issued by a change notification recomputed the
\* set.  The page loaded both guests as unconfirmed and confirmed one; the
\* store applied the update and notified the page; the toggle's response
\* has not been processed, so the guest is in the set only through the
\* reload that the notification issued
C7_Witness ==
    /\ uploads = <<>>
    /\ Len(toggles) = 1
    /\ toggles[1].c = "c1" /\ toggles[1].st = "ok" /\ toggles[1].matched = 1
    /\ ~toggles[1].local /\ toggles[1].val
    /\ loads["c1"] = <<>> /\ events["c1"] = 0
    /\ Len(supabaseGuests["c1"]) = 2
    /\ confirmedGuests["c1"] = {toggles[1].g}

\* the page has handled every notification and processed every response
settled(c) == subscribed[c] /\ loads[c] = <<>> /\ events[c] = 0

\* no request was refused by an injected failure: every operation counted
\* is a toggle or a picked file
noFailure == nOps = Len(toggles) + Len(files)

\* every upload has ended with its batch saved and every toggle's response
\* has been processed
idle ==
    /\ \A u \in 1..Len(uploads) : uploads[u].pc = "saved"
    /\ \A k \in 1..Len(toggles) : toggles[k].st \in {"success", "failed"}

\* C8 (as claimed): whenever the remote store holds at least one record,
\* the number of displayed rows equals the number of records in the store.
\* Stated for the states that favour the claim: nothing is in progress (the
\* page has handled every notification and processed every response, every
\* upload has ended) and no request has failed or been refused.
C8_DisplayCountEqualsStore ==
    \A c \in Clients :
        (settled(c) /\ idle /\ noFailure /\ Len(store) > 0)
            => Len(currentData(c)) = Len(store)

\* the rows of the batch most recently parsed at client c
lastParsed(c) ==
    LET mine == {u \in 1..Len(uploads) : uploads[u].c = c}
    IN IF mine = {} THEN <<>>
       ELSE uploads[CHOOSE u \in mine : \A v \in mine : v <= u].batch.rows

remoteRow(row, g) ==
    /\ row[kGuestId] = CellStr(g.guest_id)
    /\ row[kSupabaseId] = CellStr(g.id)
    /\ DOMAIN row = DOMAIN g.guest_data \cup {kGuestId, kSupabaseId}
    /\ \A h \in DOMAIN g.guest_data \ {kGuestId, kSupabaseId} :
          row[h] = g.guest_data[h]

\* C9 (as claimed): whenever the remote store has at least one row the
\* displayed rows are the remote rows with id and guest_id attached; only
\* when it has none are they the most recently parsed local batch, shown
\* before it is persisted.  Stated for the states that favour the claim:
\* the page has handled every notification and processed every response,
\* and no request has failed.
C9_PrecedenceByStore ==
    \A c \in Clients : (settled(c) /\ noFailure) =>
        IF Len(store) > 0
        THEN \E snap \in selectAnswers(store) :
                /\ Len(currentData(c)) = Len(snap)
                /\ \A i \in 1..Len(snap) : remoteRow(currentData(c)[i], snap[i])
        ELSE currentData(c) = lastParsed(c)

\* C10 (as claimed): after a toggle's update has been applied, once the
\* toggle's response and the reload triggered by its notification have both
\* been processed, in whichever order, and nothing else was written, the
\* local Confirmed Set equals the set of guest_ids stored as confirmed.
C10_Converges ==
    \A k \in 1..Len(toggles) :
        LET c == toggles[k].c
        IN (/\ nOps = 1
            /\ toggles[k].quiet
            /\ toggles[k].st = "success"
            /\ toggles[k].matched = 1
            /\ loads[c] = <<>>
            /\ events[c] = 0)
              => confirmedGuests[c] = confirmedOf(store)

\* the columns of a displayed row that come from the uploaded file
dataColumns(row) == DOMAIN row \ {kGuestId, kSupabaseId}

\* C11 (as claimed): a displayed row is in the filtered result exactly when
\* the search term is empty or some data column of the row (not the
\* attached record id and guest_id) has a string representation that
\* contains the term, case-insensitively.  Stated for terms that are not
\* blank, where the result depends on the row.
C11_SearchMatchesDataColumns ==
    \A c \in Clients : (subscribed[c] /\ trim(searchTerm[c]) # <<>>) =>
        \A i \in 1..Len(currentData(c)) :
            LET row == currentData(c)[i]
            IN (row \in Range(filteredData(c)))
                  <=> \/ searchTerm[c] = <<>>
                      \/ \E k \in dataColumns(row) :
                            /\ row[k].t # "null"
                            /\ includes(toLowerCase(cellToString(row[k])),
                                        toLowerCase(searchTerm[c]))

\* C12 (as claimed): in both variants the view shows the "no data loaded"
\* state when there are no rows at all and a separate "no results" state
\* when rows exist but a non-empty search term matches none of them.
C12_EmptyStatesDistinct ==
    \A c \in Clients : subscribed[c] =>
        /\ Len(currentData(c)) = 0
              => view1(c) = viewNoData /\ view2(c) = viewNoData
        /\ (/\ Len(currentData(c)) > 0
            /\ searchTerm[c] # <<>>
            /\ Len(filteredData(c)) = 0)
              => view1(c) = viewNoResults /\ view2(c) = viewNoResults

\* C13: a file larger than 10 MiB is rejected with an error by
\* handleFileUpload itself: no parser runs for it, nothing is deleted or
\* inserted, no batch is handed over, and the uploader is not left loading.
C13_OversizeRejected ==
    [][/\ \A a \in 1..Len(files') :
             (files'[a].file.size > MaxFileSize) =>
                 /\ files'[a].st = "rejected"
                 /\ files'[a].up = 0
                 /\ files'[a].err \in {errTooLarge, errExtension}
       /\ (/\ Len(files') = Len(files) + 1
           /\ files'[Len(files')].file.size > MaxFileSize)
             => /\ uploader'.error = files'[Len(files')].err
                /\ ~uploader'.isLoading
                /\ UNCHANGED <<store, uploads, guestData, headers, events>>]_vars

\* C13 witness: a .csv file of 10 MiB + 1 byte was rejected for its size
\* while the store holds records, and a file of exactly 10 MiB was parsed
C13_Witness ==
    /\ store # <<>>
    /\ \E a \in 1..Len(files) :
          /\ files[a].file.name = nameCsv
          /\ files[a].file.size = MaxFileSize + 1
          /\ files[a].err = errTooLarge
    /\ \E a \in 1..Len(files) :
          /\ files[a].file.size = MaxFileSize
          /\ files[a].st = "saving"

nonBlankCount(cells) == Cardinality({j \in 1..Len(cells) : trim(cells[j]) # <<>>})

\* the raw rows of an attempt: lines split on the delimiter, or sheet rows
rawRows(a) ==
    IF files[a].kind = "csv"
    THEN LET lines == csvLines(files[a].file.text)
         IN [i \in 1..Len(lines) |-> splitOn(lines[i], guessDelimiter(lines).delim)]
    ELSE files[a].file.sheet

parses(a) ==
    IF files[a].kind = "csv" THEN papaParse(files[a].file.text).errors = 0
    ELSE files[a].file.hasSheet

expectedError(a) ==
    LET raw == rawRows(a)
        csv == files[a].kind = "csv"
    IN IF Len(raw) < 2 THEN (IF csv THEN errCsvEmpty ELSE errTooFewRows)
       ELSE IF nonBlankCount(raw[1]) = 0
            THEN (IF csv THEN errCsvNoHeaders ELSE errNoHeaders)
       ELSE IF \A i \in 2..Len(raw) : nonBlankCount(raw[i]) = 0
            THEN errNoValidRows
       ELSE errNull

\* C14 (as claimed): for a file that parses, in both paths, fewer than 2
\* raw lines or rows is reported first, then zero non-blank headers, then
\* zero rows with a non-blank cell; an input failing one of them is
\* reported with the error of the earliest failing check and is not saved.
C14_ValidationOrder ==
    \A a \in 1..Len(files) :
        (files[a].st \in {"invalid", "saving"} /\ parses(a)) =>
            /\ files[a].err = expectedError(a)
            /\ files[a].err # errNull => files[a].up = 0

\* C15 (as claimed): when the delete or the insert of an upload fails at
\* the store, the upload ends with the failure notification and without
\* the success notification.  (In the uploader specification the single
\* upload counts as one operation; every further one is an injected
\* failure of its delete or insert.)
C15_StoreFailureReported ==
    \A u \in 1..Len(uploads) :
        (uploads[u].pc \in {"saved", "saveFailed"} /\ nOps > 1) =>
            /\ uploads[u].pc = "saveFailed"
            /\ toast[uploads[u].c] = "Error al guardar"

\* C16: whenever the uploader is loading it eventually is not loading
\* again, whatever the outcome of the attempt.
C16_ReturnsToNotLoading == uploader.isLoading ~> ~uploader.isLoading

\* C16 witness: a spreadsheet passed validation, its save failed at the
\* store, and the uploader, loading throughout the save, is not loading
C16_Witness ==
    /\ Len(files) = 1
    /\ files[1].kind = "excel"
    /\ files[1].st = "saving"
    /\ uploads[files[1].up].pc = "saveFailed"
    /\ ~uploader.isLoading

\* C18 (as claimed): the file a,b / 1,2 / 3,4, with any number of trailing
\* blank lines, is handed to the save as headers a, b and rows
\* {a: "1", b: "2"}, {a: "3", b: "4"}, every value the string of the file.
C18_CsvValuesKeptAsStrings ==
    \A a \in 1..Len(files) :
        (/\ files[a].kind = "csv"
         /\ files[a].st = "saving"
         /\ files[a].file.text \in {csvTwoRows, csvTwoRowsNl, csvTwoRowsNlNl}) =>
            uploads[files[a].up].batch =
               [headers |-> << <<"a">>, <<"b">> >>,
                rows |-> << (<<"a">> :> CellStr(<<"1">>)) @@ (<<"b">> :> CellStr(<<"2">>)),
                            (<<"a">> :> CellStr(<<"3">>)) @@ (<<"b">> :> CellStr(<<"4">>)) >>]

\* C19 (as claimed): in the spreadsheet path the value stored under a kept
\* header is the row's cell in the header's own sheet column, or the empty
\* string when the row has no such cell -- also with blank header cells to
\* the left of the header.
C19_ExcelZipByColumn ==
    \A a \in 1..Len(files) :
        (files[a].kind = "excel" /\ files[a].st = "saving") =>
            LET sheet == files[a].file.sheet
                kept == SelectSeq(SubSeq(sheet, 2, Len(sheet)), excelRowKept)
                rows == uploads[files[a].up].batch.rows
            IN \A i \in 1..Len(kept) :
                 \A j \in 1..Len(sheet[1]) :
                    trim(sheet[1][j]) # <<>> =>
                       rows[i][trim(sheet[1][j])] =
                          CellStr(IF j <= Len(kept[i]) THEN kept[i][j] ELSE <<>>)

\* C20 (as claimed): the step that invokes a toggle already applies the
\* toggle to the local Confirmed Set, before the store has answered.
C20_LocalUpdateImmediate ==
    [][Len(toggles') = Len(toggles) + 1 =>
          LET t == toggles'[Len(toggles')]
          IN confirmedGuests'[t.c] = toggleIn(confirmedGuests[t.c], t.g)]_vars

C21_LastWriteWins ==
    [][\A k \in 1..Len(toggles) :
          (toggles[k].st = "req" /\ toggles'[k].st = "ok") =>
             /\ Len(store') = Len(store)
             /\ \A i \in matching(store, toggles[k].g) :
                   /\ store'[i].confirmed = toggles[k].val
                   /\ store'[i].confirmed_at =
                        (IF toggles[k].val THEN Ts(toggles[k].at) ELSE TsNull)]_vars

\* C21 witness: two pages confirmed the same guest, each having read it as
\* unconfirmed; the store applied the second page's update first and the
\* first page's update last, and holds the timestamp of the first
C21_Witness ==
    /\ Len(toggles) = 2
    /\ toggles[1].c # toggles[2].c
    /\ toggles[1].g = toggles[2].g
    /\ toggles[1].val /\ toggles[2].val
    /\ toggles[1].st = "ok" /\ toggles[2].st = "success"
    /\ toggles[1].matched = 1 /\ toggles[2].matched = 1
    /\ \E i \in matching(store, toggles[1].g) :
          store[i].confirmed /\ store[i].confirmed_at = Ts(toggles[1].at)

\* what the table holds of each record apart from the generated id
recordsOf(st) ==
    [i \in 1..Len(st) |->
        [guest_id |-> st[i].guest_id, guest_data |-> st[i].guest_data,
         confirmed |-> st[i].confirmed]]

holdsBatch(st, b) == recordsOf(st) = guestsToInsert(b.rows, b.headers)

\* C22 (as claimed): once two uploads have both completed, the table holds
\* exactly the records of one of the two batches: not rows of both, and not
\* nothing.  (Two uploads that do not overlap leave the second batch; only
\* overlapping ones can leave anything else.)
C22_OneBatchWins ==
    \A u, v \in 1..Len(uploads) :
        (/\ u < v
         /\ uploads[u].pc \in {"saved", "saveFailed"}
         /\ uploads[v].pc \in {"saved", "saveFailed"}) =>
            \/ holdsBatch(store, uploads[u].batch)
            \/ holdsBatch(store, uploads[v].batch)

\* C23: a step of a toggle (its invocation, its update at the store, its
\* response) keeps the number of records, keeps id, guest_id and guest_data
\* of every record, and keeps every record with another guest_id as it
\* was; the number of records changes only in a step of an upload.
C23_ToggleInPlace ==
    [][/\ \A k \in 1..Len(toggles') :
             (k > Len(toggles) \/ toggles'[k] # toggles[k]) =>
                /\ Len(store') = Len(store)
                /\ \A i \in 1..Len(store) :
                      /\ store'[i].id = store[i].id
                      /\ store'[i].guest_id = store[i].guest_id
                      /\ store'[i].guest_data = store[i].guest_data
                      /\ store[i].guest_id # toggles'[k].g => store'[i] = store[i]
       /\ Len(store') # Len(store) =>
             \E u \in 1..Len(uploads) : uploads'[u].pc # uploads[u].pc]_vars

\* C23 witness: of two records the toggle's update changed the one with
\* the toggled guest_id, the other is as inserted
C23_Witness ==
    /\ Len(store) = 2
    /\ \E k \in 1..Len(toggles) :
          /\ toggles[k].st = "success" /\ toggles[k].matched = 1 /\ toggles[k].val
          /\ \E i, j \in 1..Len(store) :
                /\ store[i].guest_id = toggles[k].g /\ store[i].confirmed
                /\ store[j].guest_id # toggles[k].g
                /\ ~store[j].confirmed /\ store[j].confirmed_at = TsNull

\* C24 (as claimed): both variants place, in the second pass, a header
\* when it contains the preferred entry or the preferred entry contains it,
\* ignoring case; so for every header list the second variant returns the
\* sequence the first variant returns.
C24_VariantsAgree ==
    columns.done /\ columns.shown1 =>
        /\ columns.v1 = getOrderedHeaders(columns.in1)
        /\ getOrderedHeaders2(columns.in1) = columns.v1
        /\ columns.in1 = headers["c1"] => columns.v2 = columns.v1

\* C25 (as claimed): while the locally parsed batch is displayed, the
\* identifier the table computes for each row shown equals the guest_id the
\* upload derived for that row from its position in the batch, whatever
\* the search term and the row's position among the rows shown.
C25_TableIdIsPersistedId ==
    \A c \in Clients :
        (subscribed[c] /\ supabaseGuests[c] = <<>> /\ guestData[c] # <<>>) =>
            \A i \in 1..Len(filteredData(c)) :
                LET row == filteredData(c)[i]
                    p == CHOOSE q \in 1..Len(guestData[c]) : guestData[c][q] = row
                IN getGuestId(row, i - 1) = uploadGuestId(row, p - 1, headers[c])

\* C26: when the store answers a toggle's update with an error, nothing is
\* written to the table, and the step in which the client handles the
\* answer leaves its Confirmed Set as it was and shows the failure
\* notification; the invocation itself had left the set as it was too.
C26_FailedToggleKeepsSet ==
    [][\A k \in 1..Len(toggles') :
          LET c == toggles'[k].c
          IN /\ k > Len(toggles) => confirmedGuests' = confirmedGuests
             /\ (k <= Len(toggles) /\ toggles[k].st = "req" /\ toggles'[k].st = "err")
                   => store' = store /\ confirmedGuests' = confirmedGuests
             /\ (k <= Len(toggles) /\ toggles[k].st = "err" /\ toggles'[k].st = "failed")
                   => /\ store' = store
                      /\ confirmedGuests' = confirmedGuests
                      /\ toast'[c] = "Error al actualizar"]_vars

\* C26 witness: cancelling the confirmation of a confirmed guest failed at
\* the store; the guest is still in the local set and confirmed in the table
C26_Witness ==
    \E k \in 1..Len(toggles) :
        /\ toggles[k].st = "failed"
        /\ ~toggles[k].val
        /\ toggles[k].g \in confirmedGuests[toggles[k].c]
        /\ storedConfirmed(toggles[k].g) = "true"
        /\ toast[toggles[k].c] = "Error al actualizar"

\* C27 (as claimed): the step that ends an upload whose delete or insert
\* failed at the store hands nothing over: the page's batch and headers
\* stay as they were and the uploader stays open.  (In the uploader
\* specification every operation after the upload itself is an injected
\* failure of its delete or insert; an insert can also be refused by the
\* unique index.)
C27_HandoverOnlyOnSuccess ==
    [][\A u \in 1..Len(uploads) :
          (/\ uploads[u].pc \in {"insOk", "insErr"}
           /\ uploads'[u].pc \in {"saved", "saveFailed"}
           /\ (nOps > 1 \/ uploads'[u].pc = "saveFailed")) =>
              /\ guestData' = guestData
              /\ headers' = headers
              /\ uploader'.isOpen = uploader.isOpen]_vars

\* C28 (as claimed): a page that makes no toggle of its own, once every
\* notification has been handled and every response of its loads has been
\* processed, holds the snapshot and the Confirmed Set of the load it
\* issued last.  That load was issued after the table's last change and
\* answered since, so its snapshot is the table as it is.
C28_ReloadsNeverRegress ==
    \A c \in Clients :
        (/\ subscribed[c]
         /\ loads[c] = <<>>
         /\ events[c] = 0
         /\ \A k \in 1..Len(toggles) : toggles[k].c # c) =>
            /\ supabaseGuests[c] \in selectAnswers(store)
            /\ confirmedGuests[c] = confirmedOf(store)

====
